---- MODULE Spec2Model ----
(***************************************************************************)
(* Model of xdh/_dice.py: rollable dice expressions.  The heap holds every *)
(* Rollable object; each object owns a roll cache (Rollable.__last).  An   *)
(* operation is evaluated on a "world" (heap, caches, log of the _roll     *)
(* calls it made); because rolls are random, an operation yields a SET of  *)
(* outcomes, one per sequence of random draws.                             *)
(***************************************************************************)
EXTENDS Integers, Sequences, FiniteSets, TLC

VARIABLES
    heap,   \* the Rollable objects created so far, by index
    held,   \* the objects the caller holds: those some operation returned
    last,   \* last[i]: the roll cache of object i (Rollable.__last)
    op,     \* the latest operation and its operands
    ret,    \* what the latest operation returned or raised
    log     \* the _roll calls that ran during the latest operation: object and
            \* result, in order of completion

vars == <<heap, held, last, op, ret, log>>

\* ------------------------------------------------------------------ bounds
\* Constructing operations are enabled while the heap holds fewer objects
\* than the bound of the specification.
MaxRollNodes == 2

MaxAddNodes == 5

MaxArithNodes == 3

MaxDivideNodes == 2

MaxModulusNodes == 5

MaxCopyNodes == 4

MaxDieNodes == 2

MaxGroupNodes == 5

MaxDiceNodes == 5

MaxInvertNodes == 3

MaxOperatorNodes == 3

MaxTermNodes == 2

MaxFlatNodes == 3

MaxScaledNodes == 5

MaxPowerNodes == 4

\* ------------------------------------------------------------- numbers
\* Python numbers (int, and the floats 1/d and n/d) as reduced fractions.
RECURSIVE GCD(_, _)
GCD(a, b) == IF b = 0 THEN a ELSE GCD(b, a % b)

Abs(n) == IF n < 0 THEN -n ELSE n

Frac(n, d) ==
    LET s == IF d < 0 THEN -1 ELSE 1
        g == GCD(Abs(n), Abs(d))
    IN  [n |-> (s * n) \div g, d |-> (s * d) \div g]

Q(n) == [n |-> n, d |-> 1]

QAdd(a, b) == Frac(a.n * b.d + b.n * a.d, a.d * b.d)

QMul(a, b) == Frac(a.n * b.n, a.d * b.d)

\* a / b, for b # 0
QDiv(a, b) == Frac(a.n * b.d, a.d * b.n)

\* floor of a fraction (its denominator is positive)
QFloor(a) == a.n \div a.d

\* a // b and a % b of Python, for b # 0
QFloorDiv(a, b) == Q(QFloor(QDiv(a, b)))

QMod(a, b) == QAdd(a, QMul(Q(-1), QMul(b, QFloorDiv(a, b))))

\* a fraction is an integer
IsInt(a) == a.d = 1

\* math.ceil and math.trunc of a fraction
QCeil(a) == -((-a.n) \div a.d)

QTrunc(a) == IF a.n < 0 THEN QCeil(a) ELSE QFloor(a)

RECURSIVE IntPow(_, _)
IntPow(b, e) == IF e = 0 THEN 1 ELSE b * IntPow(b, e - 1)

\* a ** e for an integer e, with a # 0 when e < 0
QPow(a, e) ==
    IF e >= 0 THEN Frac(IntPow(a.n, e), IntPow(a.d, e))
    ELSE Frac(IntPow(a.d, -e), IntPow(a.n, -e))

RECURSIVE BitOr(_, _), BitAnd(_, _)
\* a | b, a ^ b and a & b of Python integers (two's complement of any width)
BitOr(a, b) ==
    IF a = 0 THEN b
    ELSE IF b = 0 THEN a
    ELSE IF a = -1 \/ b = -1 THEN -1
    ELSE 2 * BitOr(a \div 2, b \div 2)
         + (IF a % 2 = 1 \/ b % 2 = 1 THEN 1 ELSE 0)

BitAnd(a, b) ==
    IF a = 0 \/ b = 0 THEN 0
    ELSE IF a = -1 THEN b
    ELSE IF b = -1 THEN a
    ELSE 2 * BitAnd(a \div 2, b \div 2)
         + (IF a % 2 = 1 /\ b % 2 = 1 THEN 1 ELSE 0)

RECURSIVE OrAll(_), AndAll(_)
\* functools.reduce(operator.or_, qs, 0) and reduce(operator.and_, qs, -1)
\* over integers
OrAll(qs) == IF qs = <<>> THEN 0 ELSE BitOr(Head(qs).n, OrAll(Tail(qs)))

AndAll(qs) == IF qs = <<>> THEN -1 ELSE BitAnd(Head(qs).n, AndAll(Tail(qs)))

\* every number of the sequence is an integer
AllInt(qs) == \A k \in DOMAIN qs : qs[k].d = 1

\* ------------------------------------------------------------- values
\* What a roll produces: a number, the pair of a divmod, or an exception.
Ok(q) == [err |-> "", pair |-> FALSE, q |-> q, r |-> Q(0)]

OkPair(q, r) == [err |-> "", pair |-> TRUE, q |-> q, r |-> r]

Raise(e) == [err |-> e, pair |-> FALSE, q |-> Q(0), r |-> Q(0)]

NoCache == [has |-> FALSE, v |-> Ok(Q(0))]

Cached(v) == [has |-> TRUE, v |-> v]

\* An operand or a result of an operator: a Rollable (by heap index) or a
\* plain number.
Ref(i) == [err |-> "", isv |-> TRUE, id |-> i, q |-> Q(0)]

Num(q) == [err |-> "", isv |-> FALSE, id |-> 0, q |-> q]

Fail(e) == [err |-> e, isv |-> FALSE, id |-> 0, q |-> Q(0)]

NoOperand == Num(Q(0))

\* ------------------------------------------------------------- objects
BlankNode ==
    [kind |-> "", sides |-> 0, conv |-> "", group |-> <<>>, scalar |-> Q(0),
     numerator |-> NoOperand, denominator |-> NoOperand, die |-> 0,
     element |-> NoOperand, ndigits |-> 0]

DieNode(sides, conv) ==
    [BlankNode EXCEPT !.kind = "Die", !.sides = sides, !.conv = conv]

DiceNode(group) ==
    [BlankNode EXCEPT !.kind = "Dice", !.group = group, !.conv = "standard_dice"]

SeqNode(kind, group, scalar) ==
    [BlankNode EXCEPT !.kind = kind, !.group = group, !.scalar = scalar]

PairNode(kind, numerator, denominator) ==
    [BlankNode EXCEPT !.kind = kind, !.numerator = numerator,
                      !.denominator = denominator]

\* a node over one element: DiceBitwiseInvert, DiceAbs, DiceTrunc, DiceFloor,
\* DiceCeil
ElementNode(kind, element) ==
    [BlankNode EXCEPT !.kind = kind, !.element = element]

World(h, l, g) == [heap |-> h, last |-> l, log |-> g]

\* object.__new__: a fresh object, with no cached roll
Alloc(w, node) ==
    [w EXCEPT !.heap = Append(@, node), !.last = Append(@, NoCache)]

NewId(w) == Len(w.heap) + 1

\* ------------------------------------------------------------ rolling
standard_die(value) == value

\* a caller-supplied convention: faces numbered from 0
zero_based(value) == value - 1

Convention(conv, value) ==
    IF conv = "zero_based" THEN zero_based(value) ELSE standard_die(value)

RECURSIVE QSum(_)
QSum(qs) == IF qs = <<>> THEN Q(0) ELSE QAdd(Head(qs), QSum(Tail(qs)))

RECURSIVE QProduct(_)
QProduct(qs) == IF qs = <<>> THEN Q(1) ELSE QMul(Head(qs), QProduct(Tail(qs)))

standard_dice(values) == QSum(values)

\* numerator OP denominator of the four two-operand nodes
Divide(kind, n, d) ==
    IF d = Q(0) THEN Raise("ZeroDivisionError")
    ELSE IF kind = "DiceTrueDivider" THEN Ok(QDiv(n, d))
    ELSE IF kind = "DiceFloorDivider" THEN Ok(QFloorDiv(n, d))
    ELSE IF kind = "DiceModulus" THEN Ok(QMod(n, d))
    ELSE OkPair(QFloorDiv(n, d), QMod(n, d))

RECURSIVE Call(_, _), Roll(_, _), RollItems(_, _), RollOperand(_, _)

\* a call that returns the roll without keeping it
CallKeepsNothing(w, i) ==
    { [w |-> [o.w EXCEPT !.log = Append(@, [id |-> i, v |-> o.v])], v |-> o.v] :
      o \in Roll(w, i) }

\* Rollable.__call__: roll, store the result in the cache, return it.  The
\* log records each _roll that ran and what it returned or raised.
Call(w, i) ==
    { IF o.v.err # ""
      THEN [w |-> [o.w EXCEPT !.log = Append(@, [id |-> i, v |-> o.v])], v |-> o.v]
      ELSE [w |-> [o.w EXCEPT !.last[i] = Cached(o.v),
                              !.log = Append(@, [id |-> i, v |-> o.v])],
            v |-> o.v] :
      o \in Roll(w, i) }

\* item() for item in self._group, in order; stops at the first exception
RollItems(w, group) ==
    IF group = <<>> THEN {[w |-> w, err |-> "", vs |-> <<>>]}
    ELSE UNION {
        IF o.v.err # "" THEN {[w |-> o.w, err |-> o.v.err, vs |-> <<>>]}
        ELSE IF o.v.pair THEN {[w |-> o.w, err |-> "TypeError", vs |-> <<>>]}
        ELSE { [w |-> p.w, err |-> p.err,
                vs |-> IF p.err = "" THEN <<o.v.q>> \o p.vs ELSE <<>>] :
               p \in RollItems(o.w, Tail(group)) } :
        o \in Call(w, Head(group)) }

\* try: x = self.numerator() except TypeError: x = self.numerator
RollOperand(w, x) ==
    IF x.isv THEN Call(w, x.id) ELSE {[w |-> w, v |-> Ok(x.q)]}

\* function(self._element()) of the nodes over one element: ~ is defined on
\* integers only, and none of the functions on the pair of a divmod
Apply(kind, v) ==
    IF v.err # "" THEN v
    ELSE IF v.pair THEN Raise("TypeError")
    ELSE CASE kind = "DiceBitwiseInvert" ->
                 IF IsInt(v.q) THEN Ok(Q(-v.q.n - 1)) ELSE Raise("TypeError")
           [] kind = "DiceAbs" -> Ok(Frac(Abs(v.q.n), v.q.d))
           [] kind = "DiceTrunc" -> Ok(Q(QTrunc(v.q)))
           [] kind = "DiceFloor" -> Ok(Q(QFloor(v.q)))
           [] kind = "DiceCeil" -> Ok(Q(QCeil(v.q)))

\* base ** exponent of DicePower._roll.  A power with a non-integer exponent
\* is a float that is no fraction: it is marked, and no specification below
\* builds such an exponent.
Power(b, e) ==
    IF ~IsInt(e) THEN Raise("NotAFraction")
    ELSE IF b = Q(0) /\ e.n < 0 THEN Raise("ZeroDivisionError")
    ELSE Ok(QPow(b, e.n))

ElementKinds ==
    {"DiceBitwiseInvert", "DiceAbs", "DiceTrunc", "DiceFloor", "DiceCeil"}

\* The _roll method of each class.
Roll(w, i) ==
    LET node == w.heap[i] IN
    CASE node.kind = "Die" ->
            { [w |-> w, v |-> Ok(Q(Convention(node.conv, k)))] :
              k \in 1..node.sides }
      [] node.kind = "Dice" ->
            { [w |-> o.w,
               v |-> IF o.err # "" THEN Raise(o.err)
                     ELSE Ok(standard_dice(o.vs))] :
              o \in RollItems(w, node.group) }
      [] node.kind = "DiceAdder" ->
            { [w |-> o.w,
               v |-> IF o.err # "" THEN Raise(o.err)
                     ELSE Ok(QAdd(QSum(o.vs), node.scalar))] :
              o \in RollItems(w, node.group) }
      [] node.kind = "DiceMultiplier" ->
            { [w |-> o.w,
               v |-> IF o.err # "" THEN Raise(o.err)
                     ELSE IF o.vs = <<>> THEN Raise("TypeError")
                     ELSE Ok(QMul(QProduct(o.vs), node.scalar))] :
              o \in RollItems(w, node.group) }
      [] node.kind = "DiceBitwiseOr" ->
            { [w |-> o.w,
               v |-> IF o.err # "" THEN Raise(o.err)
                     ELSE IF o.vs = <<>> \/ ~AllInt(o.vs) \/ ~IsInt(node.scalar)
                          THEN Raise("TypeError")
                     ELSE Ok(Q(BitOr(OrAll(o.vs), node.scalar.n)))] :
              o \in RollItems(w, node.group) }
      [] node.kind = "DiceBitwiseXOr" ->
            {[w |-> w, v |-> Raise("AttributeError")]}
      [] node.kind \in ElementKinds ->
            { [w |-> o.w, v |-> Apply(node.kind, o.v)] :
              o \in RollOperand(w, node.element) }
      [] node.kind = "DicePower" ->
            UNION {
              IF b.v.err # "" THEN {b}
              ELSE { IF e.v.err # "" THEN e
                     ELSE IF b.v.pair \/ e.v.pair
                          THEN [w |-> e.w, v |-> Raise("TypeError")]
                     ELSE [w |-> e.w, v |-> Power(b.v.q, e.v.q)] :
                     e \in RollOperand(b.w, node.denominator) } :
              b \in RollOperand(w, node.numerator) }
      [] OTHER ->
            UNION {
              IF n.v.err # "" THEN {n}
              ELSE { IF d.v.err # "" THEN d
                     ELSE IF n.v.pair \/ d.v.pair
                          THEN [w |-> d.w, v |-> Raise("TypeError")]
                     ELSE [w |-> d.w, v |-> Divide(node.kind, n.v.q, d.v.q)] :
                     d \in RollOperand(n.w, node.denominator) } :
              n \in RollOperand(w, node.numerator) }

\* a last access that rolls even when a value is cached
LastAlwaysRolls(w, i) == Call(w, i)

\* Rollable.last: the cache, or a first roll when there is none
Last(w, i) ==
    IF w.last[i].has THEN {[w |-> w, v |-> w.last[i].v]} ELSE Call(w, i)

\* ------------------------------------------------- hashing and equality
\* Die.__hash__: hash((type(Die), self.convention, self.sides))
DieHash(node) == <<node.conv, node.sides>>

\* Rollable.__eq__ on two Rollables: self.last == other, which Python
\* resolves through the reflected other.__eq__ to self.last == other.last.
\* Either last access rolls an object that has no cached value yet.
EqOut(w, a, b) ==
    UNION { { [w |-> y.w, eq |-> (x.v = y.v)] : y \in Last(x.w, b) } :
            x \in Last(w, a) }

\* Rollable.__ne__(self, 0), the truth value of a Rollable (Complex.__bool__)
Truth(w, i) ==
    { [w |-> x.w, err |-> x.v.err,
       truth |-> (x.v.err = "" /\ (x.v.pair \/ x.v.q # Q(0)))] :
      x \in Last(w, i) }

RECURSIVE Find(_, _, _, _)
\* Lookup of die x in a set or dict whose keys (dice, in insertion order) are
\* probed from position k: a key matches by identity, or by equal hash and
\* __eq__.  at = 0 when no key matches.
Find(w, keys, k, x) ==
    IF k > Len(keys) THEN {[w |-> w, at |-> 0]}
    ELSE IF keys[k] = x THEN {[w |-> w, at |-> k]}
    ELSE IF DieHash(w.heap[keys[k]]) # DieHash(w.heap[x])
         THEN Find(w, keys, k + 1, x)
    ELSE UNION { IF e.eq THEN {[w |-> e.w, at |-> k]}
                 ELSE Find(e.w, keys, k + 1, x) :
                 e \in EqOut(w, keys[k], x) }

RECURSIVE BuildSet(_, _, _, _)
\* set(items): the members kept, in insertion order
BuildSet(w, items, k, acc) ==
    IF k > Len(items) THEN {[w |-> w, s |-> acc]}
    ELSE UNION { BuildSet(f.w, items, k + 1,
                          IF f.at = 0 THEN Append(acc, items[k]) ELSE acc) :
                 f \in Find(w, acc, 1, items[k]) }

\* ------------------------------------------------------- Die and Dice
\* Every operation that can change the heap or the caches yields the set of
\* its outcomes [w, r]: the world it leaves and what it returns or raises.

\* a Die.__init__ without the test of sides
DieNewUnchecked(w, sides, conv) ==
    {[w |-> Alloc(w, DieNode(sides, conv)), r |-> Ref(NewId(w))]}

\* Die.__init__
DieNew(w, sides, conv) ==
    IF sides < 2 THEN {[w |-> w, r |-> Fail("ValueError")]}
    ELSE {[w |-> Alloc(w, DieNode(sides, conv)), r |-> Ref(NewId(w))]}

\* Die.copy: Die(self.sides)
DieCopy(w, i) == DieNew(w, w.heap[i].sides, "standard_die")

\* Dice.die: a copy of the first member, made on first use and kept
DiceDie(w, i) ==
    IF w.heap[i].die # 0 THEN {[w |-> w, id |-> w.heap[i].die]}
    ELSE { [w |-> [c.w EXCEPT !.heap[i].die = c.r.id], id |-> c.r.id] :
           c \in DieCopy(w, w.heap[i].group[1]) }

RECURSIVE CopyTimes(_, _, _, _)
\* (rollable.copy() for i in range(num))
CopyTimes(w, i, num, acc) ==
    IF num = 0 THEN {[w |-> w, group |-> acc]}
    ELSE UNION { CopyTimes(c.w, i, num - 1, Append(acc, c.r.id)) :
                 c \in DieCopy(w, i) }

\* a group of num copies, for num = 1 too
DiceOfAnyCount(w, num, i) ==
    { [w |-> Alloc(c.w, DiceNode(c.group)), r |-> Ref(NewId(c.w))] :
      c \in CopyTimes(w, i, num, <<>>) }

\* "if num == 1: return rollable.copy()", else a group of num copies
DiceOf(w, num, i) ==
    IF num = 1 THEN DieCopy(w, i)
    ELSE { [w |-> Alloc(c.w, DiceNode(c.group)), r |-> Ref(NewId(c.w))] :
           c \in CopyTimes(w, i, num, <<>>) }

\* Dice.__new__(num, rollable), for a rollable that is a Die or a Dice
DiceNew(w, num, i) ==
    IF num < 1 THEN {[w |-> w, r |-> Fail("ValueError")]}
    ELSE IF w.heap[i].kind = "Dice"
         THEN UNION { DiceOf(d.w, num * Len(w.heap[i].group), d.id) :
                      d \in DiceDie(w, i) }
    ELSE DiceOf(w, num, i)

\* ------------------------------------------------------------ mappings
TypeOf(w, x) == IF x.isv THEN w.heap[x.id].kind ELSE "int"

RECURSIVE Types(_, _)
\* {type(item) for item in items}, iterated in order of first appearance
Types(w, items) ==
    IF items = <<>> THEN <<>>
    ELSE <<TypeOf(w, Head(items))>>
         \o SelectSeq(Types(w, Tail(items)),
                      LAMBDA t : t # TypeOf(w, Head(items)))

OfType(w, items, t) == SelectSeq(items, LAMBDA x : TypeOf(w, x) = t)

RECURSIVE MappingsOf(_, _, _)
MappingsOf(w, items, ts) ==
    IF ts = <<>> THEN <<>>
    ELSE <<[type |-> Head(ts), items |-> OfType(w, items, Head(ts))]>>
         \o MappingsOf(w, items, Tail(ts))

\* mappings = {type_: [item for item in operands if type(item) is type_] ...}
Mappings(w, items) == MappingsOf(w, items, Types(w, items))

Has(m, t) == \E k \in DOMAIN m : m[k].type = t

Get(m, t) ==
    IF Has(m, t) THEN m[CHOOSE k \in DOMAIN m : m[k].type = t].items ELSE <<>>

Pop(m, t) == SelectSeq(m, LAMBDA e : e.type # t)

Extend(m, t, items) ==
    IF Has(m, t)
    THEN [k \in DOMAIN m |->
            IF m[k].type = t THEN [m[k] EXCEPT !.items = @ \o items] ELSE m[k]]
    ELSE Append(m, [type |-> t, items |-> items])

RECURSIVE ExtendAll(_, _, _, _)
\* for type_, items in ...: mappings[type_].extend(items) or mappings[type_] = items
ExtendAll(w, m, items, ts) ==
    IF ts = <<>> THEN m
    ELSE ExtendAll(w, Extend(m, Head(ts), OfType(w, items, Head(ts))), items, Tail(ts))

RECURSIVE Refs(_)
Refs(ids) == IF ids = <<>> THEN <<>> ELSE <<Ref(Head(ids))>> \o Refs(Tail(ids))

RECURSIVE Ids(_)
Ids(items) == IF items = <<>> THEN <<>> ELSE <<Head(items).id>> \o Ids(Tail(items))

RECURSIVE Qs(_)
Qs(items) == IF items = <<>> THEN <<>> ELSE <<Head(items).q>> \o Qs(Tail(items))

RECURSIVE GroupsOf(_, _)
\* tuple(item for group in (x._group for x in nodes) for item in group)
GroupsOf(w, nodes) ==
    IF nodes = <<>> THEN <<>>
    ELSE Refs(w.heap[Head(nodes).id].group) \o GroupsOf(w, Tail(nodes))

RECURSIVE ScalarsOf(_, _)
ScalarsOf(w, nodes) ==
    IF nodes = <<>> THEN <<>>
    ELSE <<w.heap[Head(nodes).id].scalar>> \o ScalarsOf(w, Tail(nodes))

RECURSIVE Flatten(_, _, _, _)
\* while cls in mappings: expand the operands of class cls into their terms
\* and fold their scalars into the running scalar
Flatten(w, m, scalar, cls) ==
    IF ~Has(m, cls) THEN {[m |-> m, scalar |-> scalar]}
    ELSE UNION {
        Flatten(w, ExtendAll(w, Pop(m, cls), items, Types(w, items)),
                IF cls = "DiceAdder"
                THEN QAdd(scalar, QSum(ScalarsOf(w, Get(m, cls))))
                ELSE IF cls = "DiceBitwiseOr"
                THEN Q(BitOr(scalar.n, OrAll(ScalarsOf(w, Get(m, cls)))))
                ELSE QMul(scalar, QProduct(ScalarsOf(w, Get(m, cls)))),
                cls) :
        items \in {GroupsOf(w, Get(m, cls))} }

\* --------------------------------------------------------- DiceMultiplier
RECURSIVE PassThrough(_, _, _, _, _)
\* "if mappings:" of DiceAdder and DiceMultiplier: the Rollables of every
\* remaining type pass through in mapping order, the plain numbers are
\* folded into the scalar (summed for times = FALSE, multiplied otherwise)
PassThrough(m, k, merged, scalar, times) ==
    IF k > Len(m) THEN {[merged |-> merged, scalar |-> scalar]}
    ELSE IF m[k].type = "int"
         THEN PassThrough(m, k + 1, merged,
                          IF times THEN QMul(scalar, QProduct(Qs(m[k].items)))
                          ELSE QAdd(scalar, QSum(Qs(m[k].items))), times)
    ELSE PassThrough(m, k + 1, merged \o Ids(m[k].items), scalar, times)

\* DiceMultiplier.__new__(*multipliers, scalar=scalar)
MultiplierNew(w, multipliers, scalar) ==
    UNION { { IF p.scalar = Q(1) /\ Len(p.merged) = 1
              THEN [w |-> w, r |-> Ref(p.merged[1])]
              ELSE [w |-> Alloc(w, SeqNode("DiceMultiplier", p.merged, p.scalar)),
                    r |-> Ref(NewId(w))] :
              p \in PassThrough(f.m, 1, <<>>, f.scalar, TRUE) } :
            f \in Flatten(w, Mappings(w, multipliers), scalar, "DiceMultiplier") }

\* x * y on operands of which at least one may be a Rollable
\* (Rollable.__mul__, Rollable.__rmul__)
Times(w, x, y) ==
    IF ~x.isv /\ ~y.isv THEN {[w |-> w, r |-> Num(QMul(x.q, y.q))]}
    ELSE MultiplierNew(w, <<x, y>>, Q(1))

\* -------------------------------------------------------------- DiceAdder
RECURSIVE DiceDies(_, _, _)
\* item.die for item in dice_items
DiceDies(w, dice, acc) ==
    IF dice = <<>> THEN {[w |-> w, ids |-> acc]}
    ELSE UNION { DiceDies(d.w, Tail(dice), Append(acc, d.id)) :
                 d \in DiceDie(w, Head(dice)) }

RECURSIVE LenSum(_, _, _)
\* sum(len(item) for item in dice_items if hash(item.die) == hash(dtype))
LenSum(w, dice, key) ==
    IF dice = <<>> THEN 0
    ELSE (IF DieHash(w.heap[w.heap[Head(dice)].die]) = DieHash(w.heap[key])
          THEN Len(w.heap[Head(dice)].group) ELSE 0) + LenSum(w, Tail(dice), key)

\* "if Dice in mappings": one entry per member of {item.die for item in
\* dice_items}, counting the dice of every group whose die hashes alike
LikeDice(w, dice_items) ==
    UNION { { [w |-> s.w,
               items |-> [k \in DOMAIN s.s |->
                            [key |-> s.s[k],
                             count |-> LenSum(s.w, Ids(dice_items), s.s[k])]]] :
              s \in BuildSet(dies.w, dies.ids, 1, <<>>) } :
            dies \in DiceDies(w, Ids(dice_items), <<>>) }

\* len([item for item in die_items if hash(item) == hash(set_item)])
HashCount(w, die_items, key) ==
    Len(SelectSeq(die_items,
                  LAMBDA i : DieHash(w.heap[i]) = DieHash(w.heap[key])))

RECURSIVE Keys(_)
Keys(items) == IF items = <<>> THEN <<>> ELSE <<Head(items).key>> \o Keys(Tail(items))

RECURSIVE CountDie(_, _, _, _, _)
\* items[dtype] = items.get(dtype, 0) + count, for dtype in set(die_items)
CountDie(w, items, s, k, die_items) ==
    IF k > Len(s) THEN {[w |-> w, items |-> items]}
    ELSE UNION {
        CountDie(f.w,
                 IF f.at = 0
                 THEN Append(items, [key |-> s[k],
                                     count |-> HashCount(f.w, die_items, s[k])])
                 ELSE [items EXCEPT ![f.at].count =
                                        @ + HashCount(f.w, die_items, s[k])],
                 s, k + 1, die_items) :
        f \in Find(w, Keys(items), 1, s[k]) }

\* "if Die in mappings"
LikeDie(w, items, die_items) ==
    UNION { CountDie(s.w, items, s.s, 1, Ids(die_items)) :
            s \in BuildSet(w, Ids(die_items), 1, <<>>) }

RECURSIVE EmitGroups(_, _, _, _)
\* (Dice(count, die) if count > 1 else die) for die, count in items.items()
EmitGroups(w, items, k, acc) ==
    IF k > Len(items) THEN {[w |-> w, merged |-> acc]}
    ELSE IF items[k].count > 1
         THEN UNION { EmitGroups(g.w, items, k + 1, Append(acc, g.r.id)) :
                      g \in DiceNew(w, items[k].count, items[k].key) }
    ELSE EmitGroups(w, items, k + 1, Append(acc, items[k].key))

\* "for elem in group": a RollableSequence is iterated through its
\* __getitem__, which returns None for each index; no other Rollable is
\* iterable
Iterable(kind) ==
    kind \in {"Dice", "DiceAdder", "DiceMultiplier", "DiceBitwiseOr",
              "DiceBitwiseXOr"}

RECURSIVE ElemError(_, _)
\* whether collecting the elems of the multiplier operands raises TypeError:
\* a term that is not iterable, or a None elem handed to DiceAdder
ElemError(w, terms) ==
    /\ terms # <<>>
    /\ \/ ~Iterable(w.heap[Head(terms).id].kind)
       \/ w.heap[Head(terms).id].group # <<>>
       \/ ElemError(w, Tail(terms))

RECURSIVE Distinct(_)
\* {item.scalar for item in multiplier_items}, in order of first appearance
Distinct(qs) ==
    IF qs = <<>> THEN <<>>
    ELSE <<Head(qs)>> \o SelectSeq(Distinct(Tail(qs)), LAMBDA q : q # Head(qs))

RECURSIVE AdderNew(_, _, _), Regroup(_, _, _, _)

\* "if DiceMultiplier in mappings": one DiceMultiplier(DiceAdder(*elems),
\* scalar=ms) for each distinct scalar ms
Regroup(w, scalars, k, merged) ==
    IF k > Len(scalars) THEN {[w |-> w, err |-> "", merged |-> merged]}
    ELSE UNION {
        IF a.r.err # "" THEN {[w |-> a.w, err |-> a.r.err, merged |-> merged]}
        ELSE UNION { Regroup(x.w, scalars, k + 1, Append(merged, x.r.id)) :
                     x \in MultiplierNew(a.w, <<a.r>>, scalars[k]) } :
        a \in AdderNew(w, <<>>, Q(0)) }

\* "if DiceMultiplier in mappings"
Multipliers(w, mult, merged) ==
    IF mult = <<>> THEN {[w |-> w, err |-> "", merged |-> merged]}
    ELSE IF ElemError(w, GroupsOf(w, mult))
         THEN {[w |-> w, err |-> "TypeError", merged |-> merged]}
    ELSE Regroup(w, Distinct(ScalarsOf(w, mult)), 1, merged)

\* "if not scalar and len(merged_adders) == 1: ret = merged_adders[0]",
\* else a new DiceAdder
AdderOf(w, merged, scalar) ==
    IF scalar = Q(0) /\ Len(merged) = 1
    THEN [w |-> w, r |-> Ref(merged[1])]
    ELSE [w |-> Alloc(w, SeqNode("DiceAdder", merged, scalar)),
          r |-> Ref(NewId(w))]

\* the steps of DiceAdder.__new__ after the flattening to mappings f.m
Merge(w, f) ==
    UNION { UNION { UNION { UNION {
        IF g.err # "" THEN {[w |-> g.w, r |-> Fail(g.err)]}
        ELSE { AdderOf(g.w, p.merged, p.scalar) :
               p \in PassThrough(Pop(Pop(Pop(f.m, "Dice"), "Die"), "DiceMultiplier"),
                                 1, g.merged, f.scalar, FALSE) } :
        g \in Multipliers(e.w, Get(f.m, "DiceMultiplier"), e.merged) } :
        e \in EmitGroups(b.w, b.items, 1, <<>>) } :
        b \in LikeDie(a.w, a.items, Get(f.m, "Die")) } :
        a \in LikeDice(w, Get(f.m, "Dice")) }

\* DiceAdder.__new__(*adders, scalar=scalar)
AdderNew(w, adders, scalar) ==
    UNION { Merge(w, f) :
            f \in Flatten(w, Mappings(w, adders), scalar, "DiceAdder") }

\* x + y (Rollable.__add__, Rollable.__radd__)
Plus(w, x, y) == AdderNew(w, <<x, y>>, Q(0))

\* x - y (Complex.__sub__: self + -other; -other of a Rollable is
\* DiceMultiplier(other, scalar=-1))
Minus(w, x, y) ==
    IF y.isv
    THEN UNION { AdderNew(n.w, <<x, n.r>>, Q(0)) :
                 n \in MultiplierNew(w, <<y>>, Q(-1)) }
    ELSE AdderNew(w, <<x, Num(QMul(Q(-1), y.q))>>, Q(0))

\* ------------------------------------------- dividers, divmod, modulus
\* a zero check that runs after the node has been allocated
ZeroCheckAfterAllocation(w, denominator) ==
    {[w |-> Alloc(w, BlankNode),
      err |-> IF ~denominator.isv /\ denominator.q = Q(0)
              THEN "ZeroDivisionError" ELSE ""]}

\* "if not denominator: raise ZeroDivisionError".  The truth value of a
\* Rollable denominator is denominator != 0, i.e. denominator.last != 0.
ZeroCheck(w, denominator) ==
    IF ~denominator.isv
    THEN {[w |-> w, err |-> IF denominator.q = Q(0) THEN "ZeroDivisionError" ELSE ""]}
    ELSE { [w |-> t.w,
            err |-> IF t.err # "" THEN t.err
                    ELSE IF ~t.truth THEN "ZeroDivisionError" ELSE ""] :
           t \in Truth(w, denominator.id) }

IsKind(w, x, kind) == x.isv /\ w.heap[x.id].kind = kind

\* the numerator and the denominator that a numerator of class cls brings
Inner(w, cls, numerator) ==
    IF IsKind(w, numerator, cls)
    THEN [n |-> w.heap[numerator.id].numerator,
          d |-> w.heap[numerator.id].denominator]
    ELSE [n |-> numerator, d |-> Num(Q(1))]

\* The unwrapping of a nested node of the same class: the new numerator and
\* the new denominator, each product built with the * operator.
Chain(w, cls, numerator, denominator) ==
    IF IsKind(w, denominator, cls)
    THEN IF cls = "DiceModulus"
         THEN UNION { { [w |-> n.w, numerator |-> n.r, denominator |-> d.r] :
                        n \in Times(d.w, Inner(w, cls, numerator).n,
                                    w.heap[denominator.id].denominator) } :
                      d \in Times(w, Inner(w, cls, numerator).d,
                                  w.heap[denominator.id].numerator) }
         ELSE UNION { { [w |-> d.w, numerator |-> n.r, denominator |-> d.r] :
                        d \in Times(n.w, Inner(w, cls, numerator).d,
                                    w.heap[denominator.id].numerator) } :
                      n \in Times(w, Inner(w, cls, numerator).n,
                                  w.heap[denominator.id].denominator) }
    ELSE { [w |-> d.w, numerator |-> Inner(w, cls, numerator).n,
            denominator |-> d.r] :
           d \in Times(w, Inner(w, cls, numerator).d, denominator) }

\* the steps of the three divider constructors after the unwrapping c
Quotient(cls, c) ==
    IF IsKind(c.w, c.numerator, "DiceMultiplier")
       /\ IsKind(c.w, c.denominator, "DiceMultiplier")
    THEN IF c.w.heap[c.denominator.id].scalar = Q(0)
         THEN {[w |-> c.w, r |-> Fail("ZeroDivisionError")]}
         ELSE UNION { { [w |-> d.w, r |-> Fail("UnboundLocalError")] :
                        d \in MultiplierNew(n.w,
                                  Refs(c.w.heap[c.denominator.id].group), Q(1)) } :
                      n \in MultiplierNew(c.w,
                                Refs(c.w.heap[c.numerator.id].group),
                                QDiv(c.w.heap[c.numerator.id].scalar,
                                     c.w.heap[c.denominator.id].scalar)) }
    ELSE IF ~c.denominator.isv /\ c.denominator.q = Q(1)
         THEN {[w |-> c.w, r |-> c.numerator]}
    ELSE IF ~c.denominator.isv
         THEN MultiplierNew(c.w, <<c.numerator>>, QDiv(Q(1), c.denominator.q))
    ELSE {[w |-> Alloc(c.w, PairNode(cls, c.numerator, c.denominator)),
           r |-> Ref(NewId(c.w))]}

\* DiceFloorDivider.__new__, DiceTrueDivider.__new__, DiceDivMod.__new__
\* (the three bodies differ only in the class they test and build)
DividerNew(w, cls, numerator, denominator) ==
    UNION {
      IF z.err # "" THEN {[w |-> z.w, r |-> Fail(z.err)]}
      ELSE UNION { Quotient(cls, c) :
                   c \in Chain(z.w, cls, numerator, denominator) } :
      z \in ZeroCheck(w, denominator) }

\* "if isinstance(numerator, (Die, Dice)) and not isinstance(denominator,
\* Value)": the die of the numerator and the number of its rolls
DieOf(w, numerator) ==
    IF IsKind(w, numerator, "Dice")
    THEN { [w |-> d.w, id |-> d.id, rolls |-> Len(w.heap[numerator.id].group)] :
           d \in DiceDie(w, numerator.id) }
    ELSE {[w |-> w, id |-> numerator.id, rolls |-> 1]}

\* "ret = Dice(rolls, Die(denominator)) - 1"
Remainder(w, rolls, denominator) ==
    UNION { IF die.r.err # "" THEN {die}
            ELSE UNION { Minus(g.w, g.r, Num(Q(1))) :
                         g \in DiceNew(die.w, rolls, die.r.id) } :
            die \in DieNew(w, denominator.q.n, "standard_die") }

\* the steps of DiceModulus.__new__ after the unwrapping c
Residue(c, numerator, denominator) ==
    IF (IsKind(c.w, numerator, "Dice") \/ IsKind(c.w, numerator, "Die"))
       /\ ~denominator.isv
    THEN UNION {
        IF d.w.heap[d.id].sides % Abs(denominator.q.n) = 0
        THEN Remainder(d.w, d.rolls, denominator)
        ELSE {[w |-> Alloc(d.w, PairNode("DiceModulus", c.numerator, c.denominator)),
               r |-> Ref(NewId(d.w))]} :
        d \in DieOf(c.w, numerator) }
    ELSE {[w |-> Alloc(c.w, PairNode("DiceModulus", c.numerator, c.denominator)),
           r |-> Ref(NewId(c.w))]}

\* DiceModulus.__new__
ModulusNew(w, numerator, denominator) ==
    UNION {
      IF z.err # "" THEN {[w |-> z.w, r |-> Fail(z.err)]}
      ELSE UNION { Residue(c, numerator, denominator) :
                   c \in Chain(z.w, "DiceModulus", numerator, denominator) } :
      z \in ZeroCheck(w, denominator) }

\* ------------------------------------------ nodes over one element
\* a DiceBitwiseInvert.__new__ that wraps whatever it is given
InvertNewAlwaysWraps(w, element) ==
    {[w |-> Alloc(w, ElementNode("DiceBitwiseInvert", element)),
      r |-> Ref(NewId(w))]}

\* DiceBitwiseInvert.__new__: the element of an inverted element, or a new
\* node over the element
InvertNew(w, element) ==
    IF IsKind(w, element, "DiceBitwiseInvert")
    THEN {[w |-> w, r |-> w.heap[element.id].element]}
    ELSE {[w |-> Alloc(w, ElementNode("DiceBitwiseInvert", element)),
           r |-> Ref(NewId(w))]}

\* DiceAbs.__new__, DiceTrunc.__new__, DiceFloor.__new__, DiceCeil.__new__:
\* an element of the class itself is returned as it is
ElementNew(w, cls, element) ==
    IF IsKind(w, element, cls) THEN {[w |-> w, r |-> element]}
    ELSE {[w |-> Alloc(w, ElementNode(cls, element)), r |-> Ref(NewId(w))]}

\* round(x, ndigits): DiceRound(self, ndigits).  __new__ reads
\* element.ndigits of a DiceRound element, an attribute no DiceRound has;
\* otherwise it makes the object, and Python then calls
\* __init__(self, element) with the two arguments, which raises TypeError.
RoundNew(w, element, ndigits) ==
    IF IsKind(w, element, "DiceRound")
    THEN {[w |-> w, r |-> Fail("AttributeError")]}
    ELSE {[w |-> w, r |-> Fail("TypeError")]}

\* ------------------------------------------------------ bitwise nodes
\* the Rollables of the mappings m, in mapping order
Merged(m) == {p.merged : p \in PassThrough(m, 1, <<>>, Q(1), TRUE)}

\* the plain numbers among the values
Plain(values) == Qs(SelectSeq(values, LAMBDA x : ~x.isv))

\* DiceBitwiseAnd.__new__(cls, *values, scalar=-1).  The scalar is and-ed
\* with the plain values; "if not scalar: ret = 0", and every other path
\* reads merged_values, a name the method never binds (it fills
\* merged_adders).
AndMake(w, values, scalar) ==
    IF values # <<>> /\ ~(IsInt(scalar) /\ AllInt(Plain(values)))
    THEN {[w |-> w, r |-> Fail("TypeError")]}
    ELSE IF BitAnd(scalar.n, AndAll(Plain(values))) = 0
         THEN {[w |-> w, r |-> Num(Q(0))]}
    ELSE {[w |-> w, r |-> Fail("NameError")]}

\* x & y: DiceBitwiseAnd(self, other)
AndNew(w, x, y) == AndMake(w, <<x, y>>, Q(-1))

\* DiceBitwiseOr.__new__(cls, *values, scalar=0): the terms of DiceBitwiseOr
\* values are merged in, the plain values are or-ed into the scalar, and
\* "if len(merged_values) == 1: ret = merged_values[0]", whatever the scalar
OrMake(w, values, scalar) ==
    UNION { { IF values # <<>> /\ ~(IsInt(f.scalar) /\ AllInt(Plain(values)))
              THEN [w |-> w, r |-> Fail("TypeError")]
              ELSE IF Len(merged) = 1 THEN [w |-> w, r |-> Ref(merged[1])]
              ELSE [w |-> Alloc(w, SeqNode("DiceBitwiseOr", merged,
                                Q(BitOr(f.scalar.n, OrAll(Plain(values)))))),
                    r |-> Ref(NewId(w))] :
              merged \in Merged(f.m) } :
            f \in Flatten(w, Mappings(w, values), scalar, "DiceBitwiseOr") }

\* DiceBitwiseXOr.__new__(cls, *values, scalar=0): a DiceBitwiseXOr value
\* and a plain value are folded with operator.xor_, which does not exist
XOrMake(w, values, scalar) ==
    IF \E k \in DOMAIN values :
           ~values[k].isv \/ IsKind(w, values[k], "DiceBitwiseXOr")
    THEN {[w |-> w, r |-> Fail("AttributeError")]}
    ELSE IF values # <<>> /\ ~IsInt(scalar)
         THEN {[w |-> w, r |-> Fail("TypeError")]}
    ELSE { IF Len(merged) = 1 THEN [w |-> w, r |-> Ref(merged[1])]
           ELSE [w |-> Alloc(w, SeqNode("DiceBitwiseXOr", merged, scalar)),
                 r |-> Ref(NewId(w))] :
           merged \in Merged(Mappings(w, values)) }

\* the call cls(self, other) of an operator: after __new__ has made a new
\* object, Python calls __init__(self, *values, scalar) without the keyword
\* it requires, which raises TypeError
InitWithoutScalar(w, made) ==
    { IF o.r.err = "" /\ Len(o.w.heap) > Len(w.heap)
      THEN [w |-> w, r |-> Fail("TypeError")]
      ELSE o :
      o \in made }

\* x | y: DiceBitwiseOr(self, other)
OrNew(w, x, y) == InitWithoutScalar(w, OrMake(w, <<x, y>>, Q(0)))

\* x ^ y: DiceBitwiseXOr(self, other)
XOrNew(w, x, y) == InitWithoutScalar(w, XOrMake(w, <<x, y>>, Q(0)))

\* DiceBitwiseShift.__new__(cls, value, shift): "self.__value = value", with
\* no self
ShiftNew(w, value, shift) == {[w |-> w, r |-> Fail("NameError")]}

\* x << y: DiceBitwiseShift(self, -other); -other of a Rollable is
\* DiceMultiplier(other, scalar=-1)
LShift(w, x, y) ==
    IF y.isv
    THEN UNION { IF n.r.err # "" THEN {n} ELSE ShiftNew(n.w, x, n.r) :
                 n \in MultiplierNew(w, <<y>>, Q(-1)) }
    ELSE ShiftNew(w, x, Num(QMul(Q(-1), y.q)))

\* x >> y: DiceBitwiseShift(self, other)
RShift(w, x, y) == ShiftNew(w, x, y)

\* ------------------------------------------------------------ DicePower
\* the truth value of an operand ("if ebase:"): a plain number is true when
\* it is not 0, a Rollable when its last value is not 0
TruthOf(w, x) ==
    IF x.isv THEN Truth(w, x.id)
    ELSE {[w |-> w, err |-> "", truth |-> (x.q # Q(0))]}

RECURSIVE Pieces(_, _)
\* DicePower.__get_pieces: the innermost base of a tower of powers and the
\* exponents met on the way
Pieces(w, item) ==
    IF ~IsKind(w, item, "DicePower")
    THEN {[w |-> w, err |-> "", base |-> item, exp |-> <<>>]}
    ELSE UNION { UNION {
             IF e.err # "" THEN {[e EXCEPT !.base = b.base, !.exp = <<>>]}
             ELSE { [w |-> t.w, err |-> t.err, base |-> b.base,
                     exp |-> b.exp
                             \o (IF t.truth THEN <<e.base>> ELSE <<>>)
                             \o e.exp] :
                    t \in TruthOf(e.w, e.base) } :
             e \in Pieces(b.w, w.heap[item.id].denominator) } :
           b \in { p \in Pieces(w, w.heap[item.id].numerator) : p.err = "" } }
       \cup { p \in Pieces(w, w.heap[item.id].numerator) : p.err # "" }

\* the exponent of the new node: DiceMultiplier(*rollables, scalar=scalar),
\* or the scalar when the group holds no Rollable
Exponent(w, group) ==
    IF SelectSeq(group, LAMBDA x : x.isv) = <<>>
    THEN {[w |-> w, r |-> Num(QProduct(Qs(group)))]}
    ELSE MultiplierNew(w, SelectSeq(group, LAMBDA x : x.isv),
                       QProduct(Qs(SelectSeq(group, LAMBDA x : ~x.isv))))

\* the result DicePower.__new__ selects for a base and an exponent
Raised(w, base, exponent) ==
    IF ~base.isv /\ base.q = Q(0) THEN {[w |-> w, r |-> Num(Q(0))]}
    ELSE IF (~base.isv /\ base.q = Q(1)) \/ (~exponent.isv /\ exponent.q = Q(0))
         THEN {[w |-> w, r |-> Num(Q(1))]}
    ELSE IF ~exponent.isv /\ exponent.q = Q(1) THEN {[w |-> w, r |-> base]}
    ELSE IF ~exponent.isv /\ exponent.q = Q(-1)
         THEN DividerNew(w, "DiceTrueDivider", Num(Q(1)), base)
    ELSE {[w |-> Alloc(w, PairNode("DicePower", base, exponent)),
           r |-> Ref(NewId(w))]}

\* DicePower.__new__(cls, base, exponent).  The group of exponents is
\* unzipped into two names, which raises ValueError when it is empty.
PowerNew(w, base, exponent) ==
    UNION { UNION {
        IF b.err # "" THEN {[w |-> b.w, r |-> Fail(b.err)]}
        ELSE IF e.err # "" THEN {[w |-> e.w, r |-> Fail(e.err)]}
        ELSE UNION {
            IF t.err # "" THEN {[w |-> t.w, r |-> Fail(t.err)]}
            ELSE IF b.exp \o (IF t.truth THEN <<e.base>> ELSE <<>>) \o e.exp = <<>>
                 THEN {[w |-> t.w, r |-> Fail("ValueError")]}
            ELSE UNION {
                IF x.r.err # "" THEN {x} ELSE Raised(x.w, b.base, x.r) :
                x \in Exponent(t.w, b.exp
                                    \o (IF t.truth THEN <<e.base>> ELSE <<>>)
                                    \o e.exp) } :
            t \in TruthOf(e.w, e.base) } :
        e \in Pieces(b.w, exponent) } :
      b \in Pieces(w, base) }

\* ------------------------------------------------------------------ copy
RECURSIVE Copy(_, _), CopyItems(_, _, _), CopyOperand(_, _)

\* [item.copy() for item in self._group]
CopyItems(w, group, acc) ==
    IF group = <<>> THEN {[w |-> w, err |-> "", items |-> acc]}
    ELSE UNION {
        IF c.r.err # "" THEN {[w |-> c.w, err |-> c.r.err, items |-> acc]}
        ELSE CopyItems(c.w, Tail(group), Append(acc, c.r)) :
        c \in Copy(w, Head(group)) }

\* try: x = self.numerator.copy() except AttributeError: x = self.numerator
CopyOperand(w, x) == IF x.isv THEN Copy(w, x.id) ELSE {[w |-> w, r |-> x]}

\* The copy method of each class.
Copy(w, i) ==
    LET node == w.heap[i] IN
    CASE node.kind = "Die" -> DieCopy(w, i)
      [] node.kind = "Dice" ->
            UNION { UNION { DiceNew(c.w, Len(node.group), c.r.id) :
                            c \in DieCopy(d.w, d.id) } :
                    d \in DiceDie(w, i) }
      [] node.kind = "DiceAdder" ->
            UNION { IF c.err # "" THEN {[w |-> c.w, r |-> Fail(c.err)]}
                    ELSE AdderNew(c.w, c.items, node.scalar) :
                    c \in CopyItems(w, node.group, <<>>) }
      [] node.kind = "DiceMultiplier" ->
            UNION { IF c.err # "" THEN {[w |-> c.w, r |-> Fail(c.err)]}
                    ELSE MultiplierNew(c.w, c.items, node.scalar) :
                    c \in CopyItems(w, node.group, <<>>) }
      [] node.kind = "DiceBitwiseOr" ->
            UNION { IF c.err # "" THEN {[w |-> c.w, r |-> Fail(c.err)]}
                    ELSE OrMake(c.w, c.items, node.scalar) :
                    c \in CopyItems(w, node.group, <<>>) }
      [] node.kind = "DiceBitwiseXOr" ->
            UNION { IF c.err # "" THEN {[w |-> c.w, r |-> Fail(c.err)]}
                    ELSE XOrMake(c.w, c.items, node.scalar) :
                    c \in CopyItems(w, node.group, <<>>) }
      [] node.kind \in ElementKinds ->
            UNION { IF c.r.err # "" THEN {c}
                    ELSE IF node.kind = "DiceBitwiseInvert" THEN InvertNew(c.w, c.r)
                    ELSE ElementNew(c.w, node.kind, c.r) :
                    c \in CopyOperand(w, node.element) }
      [] node.kind = "DicePower" ->
            UNION {
              IF b.r.err # "" THEN {b}
              ELSE UNION { IF e.r.err # "" THEN {e} ELSE PowerNew(e.w, b.r, e.r) :
                           e \in CopyOperand(b.w, node.denominator) } :
              b \in CopyOperand(w, node.numerator) }
      [] OTHER ->
            UNION {
              IF n.r.err # "" THEN {n}
              ELSE UNION {
                  IF d.r.err # "" THEN {d}
                  ELSE IF node.kind = "DiceModulus" THEN ModulusNew(d.w, n.r, d.r)
                  ELSE DividerNew(d.w, node.kind, n.r, d.r) :
                  d \in CopyOperand(n.w, node.denominator) } :
              n \in CopyOperand(w, node.numerator) }

\* ---------------------------------------------------------------- hash
\* What a __hash__ hashes: hash values are modelled by the tuple hashed, so
\* two hashes are equal exactly when the hashed tuples are.
HashKey(kind, conv, sides, scalar, terms) ==
    [err |-> "", kind |-> kind, conv |-> conv, sides |-> sides,
     scalar |-> scalar, terms |-> terms]

\* hash() raised
HashError(e) == [HashKey("", "", 0, Q(0), <<>>) EXCEPT !.err = e]

RECURSIVE Hash(_, _), HashOperand(_, _)
\* hash() of an operand: of a plain number, or the __hash__ of a Rollable
HashOperand(w, x) ==
    IF x.isv THEN Hash(w, x.id) ELSE HashKey("int", "", 0, x.q, <<>>)

\* The __hash__ method of each class.  Die hashes (type(Die), convention,
\* sides); Dice, DiceAdder and DiceMultiplier hash a tuple that holds their
\* members, which hashes every member; the dividers, DiceDivMod and
\* DiceModulus call hash() with three arguments, which raises TypeError.
Hash(w, i) ==
    LET node == w.heap[i] IN
    CASE node.kind = "Die" -> HashKey("ABCMeta", node.conv, node.sides, Q(0), <<>>)
      [] node.kind \in {"Dice", "DiceAdder", "DiceMultiplier", "DiceBitwiseOr",
                        "DiceBitwiseXOr"} ->
            IF \E k \in DOMAIN node.group : Hash(w, node.group[k]).err # ""
            THEN HashError("TypeError")
            ELSE HashKey(node.kind, node.conv, 0, node.scalar,
                         [k \in DOMAIN node.group |-> Hash(w, node.group[k])])
      [] node.kind \in ElementKinds ->
            IF HashOperand(w, node.element).err # ""
            THEN HashOperand(w, node.element)
            ELSE HashKey(node.kind, "", 0, Q(0), <<HashOperand(w, node.element)>>)
      [] node.kind = "DicePower" ->
            IF HashOperand(w, node.numerator).err # ""
            THEN HashOperand(w, node.numerator)
            ELSE IF HashOperand(w, node.denominator).err # ""
                 THEN HashOperand(w, node.denominator)
            ELSE HashKey(node.kind, "", 0, Q(0),
                         <<HashOperand(w, node.numerator),
                           HashOperand(w, node.denominator)>>)
      [] OTHER -> HashError("TypeError")

\* ------------------------------------------------------------ operations
\* inputs of the operations
SidesIn == {1, 2, 3}

CountsIn == {0, 1, 2}

ConventionsIn == {"standard_die", "zero_based"}

ConstantsIn == {0, 1, 2}

Objects == DOMAIN heap

\* Operands: every object the caller holds whose roll is a number, and the
\* constants.
Rollables == {Ref(i) : i \in {j \in held : heap[j].kind # "DiceDivMod"}}

Operands == Rollables \cup {Num(Q(c)) : c \in ConstantsIn}

Now == World(heap, last, <<>>)

CanBuild(bound) == Len(heap) < bound

Op(name, x, y) == [name |-> name, x |-> x, y |-> y]

\* the step of a constructing operation with outcome o
Built(name, x, y, o) ==
    /\ heap' = o.w.heap
    /\ held' = IF o.r.err = "" /\ o.r.isv THEN held \cup {o.r.id} ELSE held
    /\ last' = o.w.last
    /\ log' = o.w.log
    /\ op' = Op(name, x, y)
    /\ ret' = [r |-> o.r, v |-> Ok(Q(0))]

\* the step of a rolling operation with outcome o
Rolled(name, i, o) ==
    /\ heap' = o.w.heap
    /\ held' = held
    /\ last' = o.w.last
    /\ log' = o.w.log
    /\ op' = Op(name, Ref(i), NoOperand)
    /\ ret' = [r |-> NoOperand, v |-> o.v]

Init ==
    /\ heap = <<>>
    /\ held = {}
    /\ last = <<>>
    /\ op = Op("", NoOperand, NoOperand)
    /\ ret = [r |-> NoOperand, v |-> Ok(Q(0))]
    /\ log = <<>>

\* Die(sides, convention)
MakeDie(sides, conv) ==
    /\ \E o \in DieNew(Now, sides, conv) : Built("Die", Num(Q(sides)), NoOperand, o)

\* Dice(num, rollable)
MakeDice(num, x) ==
    /\ heap[x.id].kind \in {"Die", "Dice"}
    /\ \E o \in DiceNew(Now, num, x.id) : Built("Dice", Num(Q(num)), x, o)

\* x + y
Add(x, y) ==
    /\ \E o \in Plus(Now, x, y) : Built("Add", x, y, o)

\* x - y
Sub(x, y) ==
    /\ \E o \in Minus(Now, x, y) : Built("Sub", x, y, o)

\* x * y
Mul(x, y) ==
    /\ \E o \in Times(Now, x, y) : Built("Mul", x, y, o)

\* x / y
TrueDiv(x, y) ==
    /\ \E o \in DividerNew(Now, "DiceTrueDivider", x, y) : Built("TrueDiv", x, y, o)

\* x // y
FloorDiv(x, y) ==
    /\ \E o \in DividerNew(Now, "DiceFloorDivider", x, y) : Built("FloorDiv", x, y, o)

\* divmod(x, y)
DivMod(x, y) ==
    /\ \E o \in DividerNew(Now, "DiceDivMod", x, y) : Built("DivMod", x, y, o)

\* x % y
Mod(x, y) ==
    /\ \E o \in ModulusNew(Now, x, y) : Built("Mod", x, y, o)

\* x ** y
Pow(x, y) ==
    /\ \E o \in PowerNew(Now, x, y) : Built("Pow", x, y, o)

\* x & y
And(x, y) ==
    /\ \E o \in AndNew(Now, x, y) : Built("And", x, y, o)

\* x | y
Or(x, y) ==
    /\ \E o \in OrNew(Now, x, y) : Built("Or", x, y, o)

\* x ^ y
XOr(x, y) ==
    /\ \E o \in XOrNew(Now, x, y) : Built("XOr", x, y, o)

\* x << y
LShiftOp(x, y) ==
    /\ \E o \in LShift(Now, x, y) : Built("LShift", x, y, o)

\* x >> y
RShiftOp(x, y) ==
    /\ \E o \in RShift(Now, x, y) : Built("RShift", x, y, o)

\* ~x
Invert(x) ==
    /\ \E o \in InvertNew(Now, x) : Built("Invert", x, NoOperand, o)

\* abs(x), math.trunc(x), math.floor(x), math.ceil(x)
ElementOp(cls, x) ==
    /\ \E o \in ElementNew(Now, cls, x) : Built(cls, x, NoOperand, o)

\* round(x, ndigits)
Round(x, ndigits) ==
    /\ \E o \in RoundNew(Now, x, ndigits) : Built("Round", x, Num(Q(ndigits)), o)

\* the first and the second of the values of a constructor call
ValueAt(values, k) == IF k <= Len(values) THEN values[k] ELSE NoOperand

\* DiceAdder(*values)
NewAdder(values) ==
    /\ \E o \in AdderNew(Now, values, Q(0)) :
           Built("DiceAdder", ValueAt(values, 1), ValueAt(values, 2), o)

\* DiceMultiplier(*values)
NewMultiplier(values) ==
    /\ \E o \in MultiplierNew(Now, values, Q(1)) :
           Built("DiceMultiplier", ValueAt(values, 1), ValueAt(values, 2), o)

\* DiceBitwiseOr(*values, scalar=scalar)
NewOr(values, scalar) ==
    /\ \E o \in OrMake(Now, values, Q(scalar)) :
           Built("DiceBitwiseOr", ValueAt(values, 1), ValueAt(values, 2), o)

\* DiceBitwiseXOr(*values, scalar=scalar)
NewXOr(values, scalar) ==
    /\ \E o \in XOrMake(Now, values, Q(scalar)) :
           Built("DiceBitwiseXOr", ValueAt(values, 1), ValueAt(values, 2), o)

\* x.copy()
CopyOp(i) ==
    /\ \E o \in Copy(Now, i) : Built("Copy", Ref(i), NoOperand, o)

\* x()
RollOp(i) == \E o \in Call(Now, i) : Rolled("Roll", i, o)

\* x.last
LastOp(i) == \E o \in Last(Now, i) : Rolled("Last", i, o)

\* ---------------------------------------------------------- specifications
\* Rolling: dice, sums and quotients over them, rolled and read.
NextRoll ==
    \/ /\ CanBuild(MaxRollNodes)
       /\ \/ \E conv \in ConventionsIn : MakeDie(2, conv)
          \/ \E x \in Rollables, y \in Rollables \cup {Num(Q(1))} : Add(x, y)
          \/ \E x \in Rollables, y \in Rollables : TrueDiv(x, y)
    \/ \E i \in held : RollOp(i)
    \/ \E i \in held : LastOp(i)

SpecRoll == Init /\ [][NextRoll]_vars

\* Sums: dice of one shape, rolled or not, and the sums built from them.
NextAdd ==
    /\ CanBuild(MaxAddNodes)
    /\ \/ MakeDie(2, "standard_die")
       \/ \E x \in Rollables, y \in Rollables \cup {Num(Q(5))} : Add(x, y)

SpecAdd == Init /\ [][NextAdd]_vars

\* Products, quotients and remainders of dice and constants, and their rolls.
NextArith ==
    \/ /\ CanBuild(MaxArithNodes)
       /\ \/ \E conv \in ConventionsIn : MakeDie(2, conv)
          \/ \E x \in Rollables, y \in Operands : Mul(x, y)
          \/ \E x \in Rollables, y \in Operands : TrueDiv(x, y)
          \/ \E x \in Rollables, y \in Operands : FloorDiv(x, y)
          \/ \E x \in Rollables, y \in Operands : DivMod(x, y)
          \/ \E x \in Rollables, y \in Operands : Mod(x, y)
    \/ \E i \in held : RollOp(i)

SpecArith == Init /\ [][NextArith]_vars

\* Division: quotients and remainders of dice by dice and by constants.
NextDivide ==
    /\ CanBuild(MaxDivideNodes)
    /\ \/ \E sides \in SidesIn, conv \in ConventionsIn : MakeDie(sides, conv)
       \/ \E x \in Rollables, y \in Operands : TrueDiv(x, y)
       \/ \E x \in Rollables, y \in Operands : FloorDiv(x, y)
       \/ \E x \in Rollables, y \in Operands : DivMod(x, y)
       \/ \E x \in Rollables, y \in Operands : Mod(x, y)

SpecDivide == Init /\ [][NextDivide]_vars

\* Remainders: dice, groups of dice, and their remainders by dice and by
\* constants.
NextModulus ==
    /\ CanBuild(MaxModulusNodes)
    /\ \/ MakeDie(2, "standard_die")
       \/ \E num \in CountsIn, x \in Rollables : MakeDice(num, x)
       \/ \E x \in Rollables, y \in Operands : Mod(x, y)

SpecModulus == Init /\ [][NextModulus]_vars

\* Copies: dice, differences and quotients over them, rolled and copied.
NextCopy ==
    \/ /\ CanBuild(MaxCopyNodes)
       /\ \/ MakeDie(2, "standard_die")
          \/ \E x \in Rollables : Sub(x, Num(Q(1)))
          \/ \E x \in Rollables, y \in Rollables : TrueDiv(x, y)
          \/ \E i \in held : CopyOp(i)
    \/ \E i \in held : RollOp(i)

SpecCopy == Init /\ [][NextCopy]_vars

\* Dice: dice of every size and convention, rolled and read.
NextDie ==
    \/ /\ CanBuild(MaxDieNodes)
       /\ \E sides \in SidesIn, conv \in ConventionsIn : MakeDie(sides, conv)
    \/ \E i \in held : RollOp(i)
    \/ \E i \in held : LastOp(i)

SpecDie == Init /\ [][NextDie]_vars

\* Groups: dice, groups of dice and groups built from groups, rolled and
\* copied.
NextGroup ==
    \/ /\ CanBuild(MaxGroupNodes)
       /\ \/ \E conv \in ConventionsIn : MakeDie(2, conv)
          \/ \E num \in CountsIn, x \in Rollables : MakeDice(num, x)
          \/ \E i \in held : CopyOp(i)
    \/ \E i \in held : RollOp(i)

SpecGroup == Init /\ [][NextGroup]_vars

\* Dice groups: a die, groups of it and groups of groups, rolled.
NextDice ==
    \/ /\ CanBuild(MaxDiceNodes)
       /\ \/ MakeDie(2, "standard_die")
          \/ \E num \in CountsIn, x \in Rollables : MakeDice(num, x)
    \/ \E i \in held : RollOp(i)

SpecDice == Init /\ [][NextDice]_vars

\* Inversion: a die, sums over it and their inversions, rolled.
NextInvert ==
    \/ /\ CanBuild(MaxInvertNodes)
       /\ \/ MakeDie(2, "standard_die")
          \/ \E x \in Rollables : Add(x, Num(Q(1)))
          \/ \E x \in Rollables : Invert(x)
    \/ \E i \in held : RollOp(i)

SpecInvert == Init /\ [][NextInvert]_vars

NdigitsIn == {0, 1, 3}

ElementClasses == {"DiceAbs", "DiceTrunc", "DiceFloor", "DiceCeil"}

\* Operators: every operator of Rollable over dice of both conventions, the
\* nodes built from them and the plain number 2.
NextOperator ==
    /\ CanBuild(MaxOperatorNodes)
    /\ \/ \E conv \in ConventionsIn : MakeDie(2, conv)
       \/ \E x \in Rollables, y \in Rollables \cup {Num(Q(2))} :
              \/ Add(x, y)
              \/ Sub(x, y)
              \/ Mul(x, y)
              \/ TrueDiv(x, y)
              \/ FloorDiv(x, y)
              \/ Mod(x, y)
              \/ DivMod(x, y)
              \/ Pow(x, y)
              \/ And(x, y)
              \/ Or(x, y)
              \/ XOr(x, y)
              \/ LShiftOp(x, y)
              \/ RShiftOp(x, y)
       \/ \E x \in Rollables :
              \/ Invert(x)
              \/ \E cls \in ElementClasses : ElementOp(cls, x)
              \/ \E ndigits \in NdigitsIn : Round(x, ndigits)

SpecOperator == Init /\ [][NextOperator]_vars

\* Terms: sums and products over dice, rolled.
NextTerm ==
    \/ /\ CanBuild(MaxTermNodes)
       /\ \/ \E sides \in SidesIn : MakeDie(sides, "standard_die")
          \/ \E x \in Rollables, y \in Rollables \cup {Num(Q(1))} : Add(x, y)
          \/ \E x \in Rollables, y \in Rollables \cup {Num(Q(2))} : Mul(x, y)
    \/ \E i \in held : RollOp(i)

SpecTerm == Init /\ [][NextTerm]_vars

\* the argument lists of the constructor calls: up to two values, each a
\* Rollable the caller holds or the plain number 2
ValuesIn ==
    {<<>>} \cup {<<x>> : x \in Rollables \cup {Num(Q(2))}}
           \cup {<<x, y>> : x \in Rollables, y \in Rollables \cup {Num(Q(2))}}

\* Flattening: the sequence classes called directly, rolled.
NextFlat ==
    \/ /\ CanBuild(MaxFlatNodes)
       /\ \/ MakeDie(2, "standard_die")
          \/ \E values \in ValuesIn :
                 \/ NewAdder(values)
                 \/ NewMultiplier(values)
                 \/ \E scalar \in {0, 1} : NewOr(values, scalar)
                 \/ NewXOr(values, 0)
    \/ \E i \in held : RollOp(i)

SpecFlat == Init /\ [][NextFlat]_vars

\* Scaled terms: dice, their multiples by 2 and by 3, and sums of these.
NextScaled ==
    /\ CanBuild(MaxScaledNodes)
    /\ \/ MakeDie(2, "standard_die")
       \/ \E x \in Rollables, k \in {2, 3} : Mul(x, Num(Q(k)))
       \/ \E x \in Rollables, y \in Rollables : Add(x, y)

SpecScaled == Init /\ [][NextScaled]_vars

BasesIn == {0, 1, 2}

ExponentsIn == {-1, 0, 1, 2}

MaxLeaves == 3

RECURSIVE Leaves(_), LeavesIn(_)
\* the dice and plain numbers an operand is made of, each counted as often
\* as it occurs
Leaves(x) ==
    IF ~x.isv \/ heap[x.id].kind = "Die" THEN 1
    ELSE LeavesIn(heap[x.id].group)
         + (IF heap[x.id].numerator = NoOperand THEN 0
            ELSE Leaves(heap[x.id].numerator) + Leaves(heap[x.id].denominator))

LeavesIn(group) ==
    IF group = <<>> THEN 0 ELSE Leaves(Ref(Head(group))) + LeavesIn(Tail(group))

\* the operands of the powers: no more than MaxLeaves dice and numbers in
\* one expression, which keeps the values rolled small
Small(x, y) == Leaves(x) + Leaves(y) <= MaxLeaves

\* Powers: dice and powers of dice, of plain numbers and to plain numbers.
NextPower ==
    /\ CanBuild(MaxPowerNodes)
    /\ \/ MakeDie(2, "standard_die")
       \/ \E x \in Rollables, y \in Rollables : Small(x, y) /\ Pow(x, y)
       \/ \E x \in Rollables, c \in ExponentsIn :
              Small(x, Num(Q(c))) /\ Pow(x, Num(Q(c)))
       \/ \E c \in BasesIn, y \in Rollables :
              Small(Num(Q(c)), y) /\ Pow(Num(Q(c)), y)

SpecPower == Init /\ [][NextPower]_vars

\* ------------------------------------------------------------------ C1
RollsOf(i, entries) == SelectSeq(entries, LAMBDA e : e.id = i)

GoodRollsOf(i, entries) == SelectSeq(entries, LAMBDA e : e.id = i /\ e.v.err = "")

CacheFollowsRolls ==
    \A j \in DOMAIN last' :
        LET good == GoodRollsOf(j, log')
        IN  IF good # <<>> THEN last'[j] = Cached(good[Len(good)].v)
            ELSE IF j \in DOMAIN last THEN last'[j] = last[j]
            ELSE ~last'[j].has

LastStep ==
    LET i == op'.x.id IN
    IF last[i].has
    THEN log' = <<>> /\ ret'.v = last[i].v
    ELSE Len(RollsOf(i, log')) = 1 /\ ret'.v = RollsOf(i, log')[1].v

RollStep ==
    LET i == op'.x.id IN
    Len(RollsOf(i, log')) = 1 /\ ret'.v = RollsOf(i, log')[1].v

\* C1: a last access on an object that has no cached value performs exactly
\* one roll of it and returns that roll; a last access on an object that has
\* a cached value performs no roll at all and returns the cache; roll() always
\* rolls the object once; and after every operation the cache of each object
\* is the value its most recent roll returned (unchanged if it was not
\* rolled, or if its roll raised).
C1_LastIsLazyRollOverwrites ==
    [][/\ CacheFollowsRolls
       /\ op'.name = "Last" => LastStep
       /\ op'.name = "Roll" => RollStep]_vars

\* a composite that was rolled is read again, without a roll
C1_Witness ==
    /\ op.name = "Last"
    /\ log = <<>>
    /\ heap[op.x.id].kind = "DiceAdder"
    /\ last[op.x.id].has

\* ------------------------------------------------------------------ C2
\* the object of id i is a Die
IsDie(i) == heap[i].kind = "Die"

\* the object of id i is a Dice group of n dice, each of the given shape
GroupOver(i, n, shape) ==
    /\ heap[i].kind = "Dice"
    /\ Len(heap[i].group) = n
    /\ \A k \in DOMAIN heap[i].group :
           IsDie(heap[i].group[k]) /\ DieHash(heap[heap[i].group[k]]) = shape

\* the shape of the dice of a Die or of a (non-empty) Dice group
ShapeOf(i) ==
    IF IsDie(i) THEN DieHash(heap[i]) ELSE DieHash(heap[heap[i].group[1]])

\* the number of dice of a Die or of a Dice group
CountOf(i) == IF IsDie(i) THEN 1 ELSE Len(heap[i].group)

\* C2: the sum of same-shape dice (two Die objects, the same one or two
\* distinct ones, or a group of such dice and one more Die) is a single Dice
\* group holding all of them, whatever values the dice have rolled; with a
\* nonzero constant c added, it is an Adder whose only term is that group
\* and whose scalar is c.
C2_SameShapeDiceMerge ==
    op.name = "Add" /\ heap[op.x.id].kind \in {"Die", "Dice"} =>
        /\ op.y.isv /\ IsDie(op.y.id) /\ ShapeOf(op.x.id) = ShapeOf(op.y.id) =>
               /\ ret.r.err = ""
               /\ ret.r.isv
               /\ GroupOver(ret.r.id, CountOf(op.x.id) + 1, ShapeOf(op.y.id))
        /\ ~op.y.isv /\ heap[op.x.id].kind = "Dice" /\ op.y.q # Q(0) =>
               /\ ret.r.err = ""
               /\ ret.r.isv
               /\ heap[ret.r.id].kind = "DiceAdder"
               /\ heap[ret.r.id].scalar = op.y.q
               /\ Len(heap[ret.r.id].group) = 1
               /\ GroupOver(heap[ret.r.id].group[1], CountOf(op.x.id),
                            ShapeOf(op.x.id))

\* ------------------------------------------------------------------ C3
RECURSIVE DiceIn(_, _)
\* the number of dice of the given shape among the terms (Die or Dice)
DiceIn(terms, shape) ==
    IF terms = <<>> THEN 0
    ELSE (IF heap[Head(terms)].kind \in {"Die", "Dice"}
             /\ ShapeOf(Head(terms)) = shape
          THEN CountOf(Head(terms)) ELSE 0) + DiceIn(Tail(terms), shape)

\* the terms of the given shape (Die or Dice) among the terms
TermsOf(terms, shape) ==
    SelectSeq(terms, LAMBDA t : heap[t].kind \in {"Die", "Dice"}
                                /\ ShapeOf(t) = shape)

Shapes == {DieHash(heap[i]) : i \in {j \in Objects : IsDie(j)}}

\* C3: the sum of two Adders is one flat Adder: none of its terms is an
\* Adder, its scalar is the sum of the two scalars, and the dice of one shape
\* of both operands are merged into one term holding all of them.
C3_AddersFlatten ==
    op.name = "Add" /\ op.y.isv /\ heap[op.x.id].kind = "DiceAdder"
                    /\ heap[op.y.id].kind = "DiceAdder" =>
        /\ ret.r.err = ""
        /\ ret.r.isv
        /\ heap[ret.r.id].kind = "DiceAdder"
        /\ heap[ret.r.id].scalar = QAdd(heap[op.x.id].scalar, heap[op.y.id].scalar)
        /\ \A k \in DOMAIN heap[ret.r.id].group :
               heap[heap[ret.r.id].group[k]].kind # "DiceAdder"
        /\ \A shape \in Shapes :
               /\ Len(TermsOf(heap[ret.r.id].group, shape)) <= 1
               /\ DiceIn(heap[ret.r.id].group, shape)
                      = DiceIn(heap[op.x.id].group, shape)
                        + DiceIn(heap[op.y.id].group, shape)

\* ------------------------------------------------------------------ C4
RECURSIVE Shape(_, _)
\* the structural identity of an operand: its variant, its fields and the
\* structural identities of its terms or operands, in order
Shape(w, x) ==
    IF ~x.isv THEN [kind |-> "int", conv |-> "", sides |-> 0, scalar |-> x.q,
                    terms |-> <<>>]
    ELSE [kind   |-> w.heap[x.id].kind,
          conv   |-> w.heap[x.id].conv,
          sides  |-> w.heap[x.id].sides,
          scalar |-> w.heap[x.id].scalar,
          terms  |-> IF w.heap[x.id].kind \in {"Die", "Dice", "DiceAdder",
                                               "DiceMultiplier",
                                               "DiceBitwiseOr",
                                               "DiceBitwiseXOr"}
                     THEN [k \in DOMAIN w.heap[x.id].group |->
                             Shape(w, Ref(w.heap[x.id].group[k]))]
                     ELSE IF w.heap[x.id].kind \in ElementKinds
                     THEN <<Shape(w, w.heap[x.id].element)>>
                     ELSE <<Shape(w, w.heap[x.id].numerator),
                            Shape(w, w.heap[x.id].denominator)>>]

\* the outcomes of each construction over the operands x and y
Constructions(x, y) ==
    << Plus(Now, x, y), Times(Now, x, y),
       DividerNew(Now, "DiceTrueDivider", x, y),
       DividerNew(Now, "DiceFloorDivider", x, y),
       DividerNew(Now, "DiceDivMod", x, y),
       ModulusNew(Now, x, y) >>

\* two outcomes of one construction have the same structural identity
SameIdentity(a, b) ==
    /\ a.r.err = b.r.err
    /\ a.r.err = "" =>
         /\ Shape(a.w, a.r) = Shape(b.w, b.r)
         /\ a.r.isv =>
              /\ Hash(a.w, a.r.id).err = ""
              /\ Hash(a.w, a.r.id) = Hash(b.w, b.r.id)

\* C4: whichever values the dice hold or roll while an expression is built,
\* building it from the same operands by the same construction yields the
\* same structural identity (variant, terms in order, scalar) and the same
\* hash, for sums, products, dividers, divmod and modulus alike.
C4_IdentityOfReconstruction ==
    \A x \in Rollables, y \in Rollables \cup {Num(Q(5))} :
        \A k \in DOMAIN Constructions(x, y) :
            \A a \in Constructions(x, y)[k], b \in Constructions(x, y)[k] :
                SameIdentity(a, b)

\* ------------------------------------------------------------------ C5
\* the operand is the plain number n
IsNumber(x, n) == ~x.isv /\ x.q = Q(n)

\* C5: x * 1, x / 1 and x // 1 with the plain number 1 return x itself.
C5_UnitReturnsOperand ==
    op.name \in {"Mul", "TrueDiv", "FloorDiv"} /\ IsNumber(op.y, 1) =>
        ret.r = op.x

\* ------------------------------------------------------------------ C6
\* C6: x * 0 with the plain number 0 is the plain number 0, not a node.
C6_ZeroCollapses ==
    op.name = "Mul" /\ IsNumber(op.y, 0) => ret.r = Num(Q(0))

\* ------------------------------------------------------------------ C7
Dividing == {"TrueDiv", "FloorDiv", "DivMod", "Mod"}

\* C7: a true or floor division, a divmod or a modulus by the plain number 0
\* raises ZeroDivisionError at once: no object is created, nothing is
\* rolled, and the caller holds no new node.
C7_ZeroDenominatorRaises ==
    [][op'.name \in Dividing /\ IsNumber(op'.y, 0) =>
          /\ ret'.r = Fail("ZeroDivisionError")
          /\ heap' = heap
          /\ last' = last
          /\ held' = held]_vars

\* a modulus of a die by the plain number 0 has raised
C7_Witness ==
    /\ op.name = "Mod"
    /\ IsNumber(op.y, 0)
    /\ heap[op.x.id].kind = "Die"
    /\ ret.r.err = "ZeroDivisionError"

\* ------------------------------------------------------------------ C8
\* the last roll of the object i in the log returned 0 (a node rolls its
\* denominator after its numerator)
RolledZero(i, entries) ==
    /\ RollsOf(i, entries) # <<>>
    /\ RollsOf(i, entries)[Len(RollsOf(i, entries))].v = Ok(Q(0))

\* C8: with a Rollable denominator, a division, divmod or modulus is built
\* without a ZeroDivisionError whatever the denominator holds or rolls; the
\* error comes only from a roll of the node in which the denominator rolls
\* 0, and then it reaches the caller of the roll.
C8_ValueDenominatorBuilds ==
    /\ op.name \in Dividing /\ op.y.isv => ret.r.err # "ZeroDivisionError"
    /\ op.name = "Roll"
       /\ heap[op.x.id].kind \in {"DiceTrueDivider", "DiceFloorDivider",
                                  "DiceDivMod", "DiceModulus"}
       /\ heap[op.x.id].denominator.isv
       /\ RolledZero(heap[op.x.id].denominator.id, log)
       => ret.v = Raise("ZeroDivisionError")

\* ------------------------------------------------------------------ C9
\* the values that a roll of the object i can return, one for each way the
\* dice can fall
RollValues(i) == {o.v : o \in Call(Now, i)}

\* the ways the dice can fall in which a roll of the object i returns v
Ways(i, v) == {o \in Call(Now, i) : o.v = v}

\* the object i is "(a die of d sides) - 1"
IsDieLessOne(i, d) ==
    /\ heap[i].kind = "DiceAdder"
    /\ heap[i].scalar = Q(-1)
    /\ Len(heap[i].group) = 1
    /\ IsDie(heap[i].group[1])
    /\ heap[heap[i].group[1]].sides = d

\* C9: the remainder of a Die or a Dice group whose die has s sides by a
\* plain number d >= 1 that divides s is built as (a die of d sides) - 1;
\* its rolls are the numbers 0 .. d - 1, each from equally many ways for
\* the dice to fall.
C9_RemainderOfDice ==
    op.name = "Mod" /\ heap[op.x.id].kind \in {"Die", "Dice"}
                    /\ ~op.y.isv /\ op.y.q.d = 1 /\ op.y.q.n >= 1
                    /\ ShapeOf(op.x.id)[2] % op.y.q.n = 0 =>
        /\ ret.r.err = ""
        /\ ret.r.isv
        /\ IsDieLessOne(ret.r.id, op.y.q.n)
        /\ RollValues(ret.r.id) = {Ok(Q(k)) : k \in 0 .. op.y.q.n - 1}
        /\ \A u \in RollValues(ret.r.id), v \in RollValues(ret.r.id) :
               Cardinality(Ways(ret.r.id, u)) = Cardinality(Ways(ret.r.id, v))

\* ----------------------------------------------------------------- C10
\* the objects that the operand x refers to
IdsOf(x) == IF x.isv THEN {x.id} ELSE {}

\* the terms and operands of the object i
Children(i) ==
    {heap[i].group[k] : k \in DOMAIN heap[i].group}
        \cup IdsOf(heap[i].numerator) \cup IdsOf(heap[i].denominator)
        \cup IdsOf(heap[i].element)

RECURSIVE Within(_, _)
\* the objects reached from the objects of ids in at most n steps
Within(ids, n) ==
    IF n = 0 THEN ids
    ELSE Within(ids \cup UNION {Children(i) : i \in ids}, n - 1)

\* the object i and its descendants
Tree(i) == Within({i}, Len(heap))

\* C10: copy() returns a node that is neither the source nor one of its
\* descendants and that holds no cached value, and no roll of the copy
\* changes the cached value of the source or of a descendant of the source.
C10_CopyIsFresh ==
    op.name = "Copy" =>
        /\ ret.r.err = ""
        /\ ret.r.isv
        /\ ret.r.id \notin Tree(op.x.id)
        /\ ~last[ret.r.id].has
        /\ \A o \in Call(Now, ret.r.id) :
               \A j \in Tree(op.x.id) : o.w.last[j] = last[j]

\* ------------------------------------------------------------------ C11
\* C11: copy() preserves shape: the copy of a node, a Die or a Dice group of
\* either convention included, has the variant, sides, counts, scalars and
\* conventions of its source, and so the same structural hash.
C11_CopyPreservesShape ==
    op.name = "Copy" =>
        /\ ret.r.err = ""
        /\ ret.r.isv
        /\ Shape(Now, ret.r) = Shape(Now, op.x)
        /\ Hash(Now, ret.r.id) = Hash(Now, op.x.id)

\* ------------------------------------------------------------------ C12
\* the object i is a Die of the default convention
IsStandardDie(i) == heap[i].kind = "Die" /\ heap[i].conv = "standard_die"

\* the faces 1..sides as roll values
Faces(sides) == {Ok(Q(k)) : k \in 1..sides}

\* C12: Die(sides) with sides < 2 raises ValueError and creates no node; a
\* Die of the default convention has at least 2 sides, each of its rolls is
\* an integer of 1..sides, and each integer of 1..sides is a possible roll.
C12_DieRollsItsFaces ==
    [][/\ op'.name = "Die" /\ op'.x.q.n < 2 =>
              /\ ret'.r = Fail("ValueError")
              /\ heap' = heap
              /\ held' = held
       /\ op'.name = "Die" /\ op'.x.q.n >= 2 =>
              /\ ret'.r = Ref(Len(heap) + 1)
              /\ Len(heap') = Len(heap) + 1
              /\ heap'[ret'.r.id].kind = "Die"
              /\ heap'[ret'.r.id].sides = op'.x.q.n
       /\ \A i \in held : IsStandardDie(i) =>
              /\ heap[i].sides >= 2
              /\ {o.v : o \in Call(Now, i)} = Faces(heap[i].sides)
       /\ op'.name \in {"Roll", "Last"} /\ IsStandardDie(op'.x.id) =>
              ret'.v \in Faces(heap[op'.x.id].sides)]_vars

\* a Die(3) has rolled its highest face, and a Die(1) was refused afterwards
C12_Witness ==
    /\ op.name = "Die"
    /\ op.x = Num(Q(1))
    /\ ret.r.err = "ValueError"
    /\ \E i \in held : /\ IsStandardDie(i)
                       /\ heap[i].sides = 3
                       /\ last[i] = Cached(Ok(Q(3)))

\* ------------------------------------------------------------------ C13
\* the object i is a Dice group of count dice, each a Die of the given sides
GroupOfDice(i, count, sides) ==
    /\ heap[i].kind = "Dice"
    /\ Len(heap[i].group) = count
    /\ \A k \in DOMAIN heap[i].group :
           IsDie(heap[i].group[k]) /\ heap[heap[i].group[k]].sides = sides

\* C13: every Dice group holds at least 2 dice.  Dice(num, die) with num < 1
\* raises ValueError; with num = 1 and a Die it returns a new Die of the same
\* sides that holds no rolled value; with a Dice group of m dice as the die it
\* returns one group of num * m dice of the inner die, not a group of groups.
C13_GroupsHoldTwoOrMore ==
    /\ \A i \in Objects : heap[i].kind = "Dice" =>
           /\ Len(heap[i].group) >= 2
           /\ \A k \in DOMAIN heap[i].group : IsDie(heap[i].group[k])
    /\ op.name = "Dice" /\ op.x.q.n < 1 => ret.r = Fail("ValueError")
    /\ op.name = "Dice" /\ op.x.q.n = 1 /\ IsDie(op.y.id) =>
           /\ ret.r.err = ""
           /\ ret.r.isv
           /\ ret.r.id # op.y.id
           /\ IsDie(ret.r.id)
           /\ heap[ret.r.id].sides = heap[op.y.id].sides
           /\ ~last[ret.r.id].has
    /\ op.name = "Dice" /\ op.x.q.n >= 1 /\ heap[op.y.id].kind = "Dice" =>
           /\ ret.r.err = ""
           /\ ret.r.isv
           /\ GroupOfDice(ret.r.id, op.x.q.n * Len(heap[op.y.id].group),
                          heap[heap[op.y.id].group[1]].sides)

\* a rolled group of 2 dice was passed as the die of a group of 2
C13_Witness ==
    /\ op.name = "Dice"
    /\ op.x = Num(Q(2))
    /\ heap[op.y.id].kind = "Dice"
    /\ Len(heap[op.y.id].group) = 2
    /\ last[op.y.id].has
    /\ ret.r.isv
    /\ Len(heap[ret.r.id].group) = 4

\* ------------------------------------------------------------------ C14
\* ~(~x) is the very object x, with no object made by the second inversion
InvertsBack(x) ==
    \A a \in InvertNew(Now, x) :
        \A b \in InvertNew(a.w, a.r) : b.r = x /\ b.w = a.w

\* C14: inverting an inverted node returns the node it was made over and
\* makes no object; so ~(~x) is the very object x for every x that is not
\* itself an inverted node.
C14_DoubleInvertReturnsInner ==
    /\ op.name = "Invert" /\ IsKind(Now, op.x, "DiceBitwiseInvert") =>
           /\ ret.r = heap[op.x.id].element
           /\ ~IsKind(Now, ret.r, "DiceBitwiseInvert")
    /\ \A x \in Rollables :
           /\ IsKind(Now, x, "DiceBitwiseInvert") =>
                  InvertNew(Now, x) = {[w |-> Now, r |-> heap[x.id].element]}
           /\ ~IsKind(Now, x, "DiceBitwiseInvert") => InvertsBack(x)

\* C14 as stated: ~(~x) is the very object x for any Rollable x
C14_DoubleInvertOfAny == \A x \in Rollables : InvertsBack(x)

\* the inversion of a rolled die was rolled and inverted, which returned the
\* die
C14_Witness ==
    /\ op.name = "Invert"
    /\ IsKind(Now, op.x, "DiceBitwiseInvert")
    /\ last[op.x.id].has
    /\ ret.r = heap[op.x.id].element
    /\ last[ret.r.id].has

\* ------------------------------------------------------------------ C15
Min(a, b) == IF a < b THEN a ELSE b

\* C15: round(x, ndigits) returns a DiceRound node; over an x that is no
\* DiceRound it holds x and ndigits, and over a DiceRound x it holds the
\* element of x and the smaller of the two digit counts.
C15_RoundOfRoundKeepsSmaller ==
    op.name = "Round" =>
        /\ ret.r.err = ""
        /\ ret.r.isv
        /\ heap[ret.r.id].kind = "DiceRound"
        /\ IF IsKind(Now, op.x, "DiceRound")
           THEN /\ heap[ret.r.id].element = heap[op.x.id].element
                /\ heap[ret.r.id].ndigits = Min(heap[op.x.id].ndigits, op.y.q.n)
           ELSE /\ heap[ret.r.id].element = op.x
                /\ heap[ret.r.id].ndigits = op.y.q.n

\* ------------------------------------------------------------------ C16
Operators ==
    {"Add", "Sub", "Mul", "TrueDiv", "FloorDiv", "Mod", "DivMod", "Pow", "And",
     "Or", "XOr", "LShift", "RShift", "Invert", "Round"} \cup ElementClasses

\* C16: every operator applied to Rollables built from dice and, when it
\* takes two operands, to a Rollable or a nonzero plain number returns a
\* Rollable, or raises ZeroDivisionError.
C16_OperatorsComplete ==
    op.name \in Operators =>
        \/ ret.r.err = "" /\ ret.r.isv
        \/ ret.r.err = "ZeroDivisionError"

\* ------------------------------------------------------------------ C17
\* the roll o of the result of the last operation rolled the numerator op.x
\* and, when it is a Rollable, the denominator op.y
RolledNumerator(o) ==
    /\ RollsOf(op.x.id, o.w.log) # <<>>
    /\ op.y.isv => RollsOf(op.y.id, o.w.log) # <<>>

\* the value the numerator op.x rolled in the roll o (it is rolled first)
NumeratorOf(o) == RollsOf(op.x.id, o.w.log)[1].v.q

\* the value of the denominator op.y in the roll o: the plain number, or the
\* value the Rollable rolled (it is rolled last)
DenominatorOf(o) ==
    IF op.y.isv
    THEN RollsOf(op.y.id, o.w.log)[Len(RollsOf(op.y.id, o.w.log))].v.q
    ELSE op.y.q

\* the rolls of the result of the last operation that returned a value
GoodRolls == {o \in Call(Now, ret.r.id) : o.v.err = ""}

\* C17: divmod(n, d) with a Rollable d or a nonzero plain number d is a
\* Rollable whose roll returns a pair (q, r) with q an integer, r smaller
\* than the denominator's value and q * d + r the rolled numerator.
C17_DivModRollsQuotientAndRemainder ==
    op.name = "DivMod" /\ ret.r.err = "" /\ (op.y.isv \/ op.y.q # Q(0)) =>
        /\ ret.r.isv
        /\ \A o \in GoodRolls :
               /\ o.v.pair
               /\ IsInt(o.v.q)
               /\ RolledNumerator(o) =>
                      /\ QAdd(QMul(o.v.q, DenominatorOf(o)), o.v.r) = NumeratorOf(o)
                      /\ QFloorDiv(o.v.r, DenominatorOf(o)) = Q(0)

\* ------------------------------------------------------------------ C18
\* C18: x // d with a Rollable d or a nonzero plain number d is a Rollable
\* whose roll returns the integer floor(vx / vd) of the rolled numerator vx
\* and the denominator's value vd.
C18_FloorDivRollsFloor ==
    op.name = "FloorDiv" /\ ret.r.err = "" /\ (op.y.isv \/ op.y.q # Q(0)) =>
        /\ ret.r.isv
        /\ \A o \in GoodRolls :
               /\ ~o.v.pair
               /\ IsInt(o.v.q)
               /\ RolledNumerator(o) =>
                      o.v.q = QFloorDiv(NumeratorOf(o), DenominatorOf(o))

\* ------------------------------------------------------------------ C19
\* the operations that construct: the operators, Die, Dice and copy
Constructing == Operators \cup {"Die", "Dice", "Copy"}

\* C19: a construction rolls nothing: every object that existed before it
\* has the same cache after it, empty or holding the same value.
C19_ConstructionRollsNothing ==
    [][op'.name \in Constructing =>
          \A i \in DOMAIN last : last'[i] = last[i]]_vars

\* ------------------------------------------------------------------ C20
RECURSIVE LastValues(_)
\* the cached values of the objects of a group, in order
LastValues(group) ==
    IF group = <<>> THEN <<>>
    ELSE <<last[Head(group)].v.q>> \o LastValues(Tail(group))

\* the value of the node i is its operator applied to the cached values of
\* its terms
ValueOfTerms(i) ==
    /\ heap[i].kind = "DiceAdder" =>
           last[i].v.q = QAdd(QSum(LastValues(heap[i].group)), heap[i].scalar)
    /\ heap[i].kind = "DiceMultiplier" =>
           last[i].v.q = QMul(QProduct(LastValues(heap[i].group)), heap[i].scalar)

RECURSIVE Occurrences(_), OccurrencesIn(_), OccurrencesOf(_)
\* the objects met when the node i is rolled, once for each time they are met
Occurrences(i) ==
    <<i>> \o OccurrencesIn(heap[i].group)
          \o OccurrencesOf(heap[i].numerator)
          \o OccurrencesOf(heap[i].denominator)
          \o OccurrencesOf(heap[i].element)

OccurrencesOf(x) == IF x.isv THEN Occurrences(x.id) ELSE <<>>

OccurrencesIn(group) ==
    IF group = <<>> THEN <<>>
    ELSE Occurrences(Head(group)) \o OccurrencesIn(Tail(group))

\* no object is met twice when the node i is rolled
MetOnce(i) ==
    \A j, k \in DOMAIN Occurrences(i) :
        Occurrences(i)[j] = Occurrences(i)[k] => j = k

\* a roll of a DiceAdder or a DiceMultiplier has just returned a value
RolledTerms ==
    /\ op.name = "Roll"
    /\ heap[op.x.id].kind \in {"DiceAdder", "DiceMultiplier"}
    /\ ret.v.err = ""

ScalarSequences ==
    {"DiceAdder", "DiceMultiplier", "DiceBitwiseOr", "DiceBitwiseXOr"}

\* C21: whatever has been constructed, no DiceAdder, DiceMultiplier,
\* DiceBitwiseOr or DiceBitwiseXOr object has an object of its own class
\* among its terms.  (A group holds objects only: a plain number is never a
\* term.)
C21_NoTermOfOwnClass ==
    \A i \in DOMAIN heap :
        heap[i].kind \in ScalarSequences =>
            \A k \in DOMAIN heap[i].group :
                heap[heap[i].group[k]].kind # heap[i].kind

\* ------------------------------------------------------------ C23
\* C23: DiceAdder() returns the number 0 and DiceMultiplier() returns the
\* number 1, not an object without terms.
C23_NoValuesGiveNeutralElement ==
    /\ op.name = "DiceAdder" /\ op.x = NoOperand => ret.r = Num(Q(0))
    /\ op.name = "DiceMultiplier" /\ op.x = NoOperand => ret.r = Num(Q(1))

\* ------------------------------------------------------------ C22
\* the operand x is a DiceMultiplier that has terms
Scaled(x) ==
    /\ x.isv
    /\ heap[x.id].kind = "DiceMultiplier"
    /\ heap[x.id].group # <<>>

\* the operand r is DiceMultiplier(DiceAdder(...), scalar) with one term
ScaledSum(r, scalar) ==
    /\ r.err = "" /\ r.isv
    /\ heap[r.id].kind = "DiceMultiplier"
    /\ heap[r.id].scalar = scalar
    /\ Len(heap[r.id].group) = 1
    /\ heap[heap[r.id].group[1]].kind = "DiceAdder"

\* C22: x + y of two DiceMultiplier objects raises nothing; when they have
\* the same scalar k the result is one DiceMultiplier of scalar k over one
\* DiceAdder, and when their scalars differ the result is a DiceAdder
\* whose terms are one such DiceMultiplier for each of the two scalars.
C22_LikeScalarsAreFactored ==
    op.name = "Add" /\ Scaled(op.x) /\ Scaled(op.y) =>
        /\ ret.r.err = ""
        /\ heap[op.x.id].scalar = heap[op.y.id].scalar =>
               ScaledSum(ret.r, heap[op.x.id].scalar)
        /\ heap[op.x.id].scalar # heap[op.y.id].scalar =>
               /\ ret.r.isv
               /\ heap[ret.r.id].kind = "DiceAdder"
               /\ Len(heap[ret.r.id].group) = 2
               /\ \E j, k \in 1..2 :
                      /\ ScaledSum(Ref(heap[ret.r.id].group[j]), heap[op.x.id].scalar)
                      /\ ScaledSum(Ref(heap[ret.r.id].group[k]), heap[op.y.id].scalar)

\* ------------------------------------------------------------ C24
\* C24: x ** y with a plain number on one side returns without an error:
\* 0 for the base 0, 1 for the base 1 and for the exponent 0, the base for
\* the exponent 1, and DiceTrueDivider(1, base) for the exponent -1.
C24_DegeneratePowers ==
    op.name = "Pow" /\ (~op.x.isv \/ ~op.y.isv) =>
        /\ ret.r.err = ""
        /\ ~op.x.isv /\ op.x.q = Q(0) => ret.r = Num(Q(0))
        /\ ~op.x.isv /\ op.x.q = Q(1) => ret.r = Num(Q(1))
        /\ ~op.y.isv /\ op.y.q = Q(0) => ret.r = Num(Q(1))
        /\ ~op.y.isv /\ op.y.q = Q(1) => ret.r = op.x
        /\ ~op.y.isv /\ op.y.q = Q(-1) =>
               /\ ret.r.isv
               /\ heap[ret.r.id].kind = "DiceTrueDivider"
               /\ heap[ret.r.id].numerator = Num(Q(1))
               /\ heap[ret.r.id].denominator = op.x

\* ------------------------------------------------------------ C29
\* the operand x is a die
IsDieOperand(x) == x.isv /\ heap[x.id].kind = "Die"

\* the operand x is a die or a plain number other than 0
IsLeaf(x) == IF x.isv THEN heap[x.id].kind = "Die" ELSE x.q # Q(0)

\* the operand x is a DicePower of a die to a die or a number
IsPowerOfLeaves(x) ==
    /\ x.isv
    /\ heap[x.id].kind = "DicePower"
    /\ IsDieOperand(heap[x.id].numerator)
    /\ IsLeaf(heap[x.id].denominator)

\* the rolls the object just returned can make now: the value, and the
\* cached values after the roll
RollsOfResult ==
    { [v |-> o.v, last |-> o.w.last] : o \in Call(Now, ret.r.id) }

\* the value of a die in the caches l, or the plain number
ValueIn(l, x) == IF x.isv THEN l[x.id].v.q ELSE x.q

\* (a ** b) ** c rolls a ** (b * c)
PowerOfPower ==
    LET a == heap[op.x.id].numerator
        b == heap[op.x.id].denominator
    IN  ({a, b, op.y} \cap {Ref(i) : i \in DOMAIN heap} # {} =>
            Cardinality({a, b, op.y}) = 3)
        => \A o \in RollsOfResult :
               o.v = Power(ValueIn(o.last, a),
                           QMul(ValueIn(o.last, b), ValueIn(o.last, op.y)))

\* a ** (b ** c) rolls a ** (b ** c)
PowerToPower ==
    LET b == heap[op.y.id].numerator
        c == heap[op.y.id].denominator
    IN  /\ Cardinality({op.x, b, c}) = 3
        => \A o \in RollsOfResult :
               \/ Power(ValueIn(o.last, b), ValueIn(o.last, c)).err # ""
               \/ o.v = Power(ValueIn(o.last, op.x),
                              Power(ValueIn(o.last, b), ValueIn(o.last, c)).q)

\* C29: a power of a power rolls the values of its operands combined as
\* written: (a ** b) ** c rolls va ** (vb * vc), and a ** (b ** c) rolls
\* va ** (vb ** vc), for dice a and b and a die or a plain number c.
C29_NestedPowersKeepTheirValue ==
    op.name = "Pow" /\ ret.r.err = "" /\ ret.r.isv =>
        /\ IsPowerOfLeaves(op.x) /\ IsLeaf(op.y) => PowerOfPower
        /\ IsDieOperand(op.x) /\ IsPowerOfLeaves(op.y) => PowerToPower

\* ------------------------------------------------------------ C25
\* the operand x is a DiceMultiplier
IsMultiplier(x) == x.isv /\ heap[x.id].kind = "DiceMultiplier"

\* C25: x / y, x // y and divmod(x, y) of two DiceMultiplier objects are
\* constructed: the call raises no UnboundLocalError, TypeError or NameError.
C25_MultipliersDivide ==
    /\ op.name \in {"TrueDiv", "FloorDiv", "DivMod"}
    /\ IsMultiplier(op.x)
    /\ IsMultiplier(op.y)
    => ret.r.err \notin {"UnboundLocalError", "TypeError", "NameError"}

\* ------------------------------------------------------------ C26
\* C26: a roll of one object leaves the cached value of every other object
\* the caller holds as it was.
C26_RollKeepsOtherCaches ==
    [][op'.name = "Roll" =>
           \A j \in held \ {op'.x.id} : last'[j] = last[j]]_vars

\* ------------------------------------------------------------ C27
\* the number of dice of the given shape in an object: in a Die, in a Dice
\* group, or among the terms of a DiceAdder
DiceOfShape(i, shape) ==
    IF heap[i].kind = "DiceAdder" THEN DiceIn(heap[i].group, shape)
    ELSE DiceIn(<<i>>, shape)

\* C27: x + y of two distinct objects, each a Die or a Dice group, holds for
\* every shape as many dice of it as x and y hold together.
C27_SumConservesDice ==
    /\ op.name = "Add"
    /\ op.y.isv
    /\ op.x.id # op.y.id
    /\ heap[op.x.id].kind \in {"Die", "Dice"}
    /\ heap[op.y.id].kind \in {"Die", "Dice"}
    => /\ ret.r.err = ""
       /\ ret.r.isv
       /\ \A shape \in {ShapeOf(op.x.id), ShapeOf(op.y.id)} :
              DiceOfShape(ret.r.id, shape) =
                  DiceOfShape(op.x.id, shape) + DiceOfShape(op.y.id, shape)

\* ------------------------------------------------------------ C28
\* the operand x is a DiceModulus of a die by a die or a number
IsModulusOfLeaves(x) ==
    /\ x.isv
    /\ heap[x.id].kind = "DiceModulus"
    /\ IsDieOperand(heap[x.id].numerator)
    /\ IsLeaf(heap[x.id].denominator)

\* n % d of two values
Rem(n, d) == Divide("DiceModulus", n, d)

\* n % d of a value that may be an error and a value
RemOf(n, d) == IF n.err # "" THEN n ELSE Rem(n.q, d)

\* n % d of a value and a value that may be an error
RemBy(n, d) == IF d.err # "" THEN d ELSE Rem(n, d.q)

\* (a % b) % c rolls (a % b) % c
ModulusOfModulus ==
    LET a == heap[op.x.id].numerator
        b == heap[op.x.id].denominator
    IN  Cardinality({a, b, op.y}) = 3
        => \A o \in RollsOfResult :
               LET value == RemOf(Rem(ValueIn(o.last, a), ValueIn(o.last, b)),
                                  ValueIn(o.last, op.y))
               IN  value.err = "" => o.v = value

\* a % (b % c) rolls a % (b % c)
ModulusByModulus ==
    LET b == heap[op.y.id].numerator
        c == heap[op.y.id].denominator
    IN  Cardinality({op.x, b, c}) = 3
        => \A o \in RollsOfResult :
               LET value == RemBy(ValueIn(o.last, op.x),
                                  Rem(ValueIn(o.last, b), ValueIn(o.last, c)))
               IN  value.err = "" => o.v = value

\* C28: a remainder of a remainder rolls the values of its operands
\* combined as written: (a % b) % c rolls (va % vb) % vc, and a % (b % c)
\* rolls va % (vb % vc), for dice a and b and a die or a plain number c,
\* whenever that value is defined.
C28_NestedModulusKeepsItsValue ==
    op.name = "Mod" /\ ret.r.err = "" /\ ret.r.isv =>
        /\ IsModulusOfLeaves(op.x) /\ IsLeaf(op.y) => ModulusOfModulus
        /\ IsDieOperand(op.x) /\ IsModulusOfLeaves(op.y) => ModulusByModulus

\* ------------------------------------------------------------ C30
\* x | c, x ^ c or x & c is called on a Rollable x with a plain integer c
\* that is not the neutral element of the operator (nor 0 for &)
KeepsConstant ==
    /\ op.name \in {"Or", "XOr", "And"}
    /\ op.x.isv
    /\ ~op.y.isv
    /\ IsInt(op.y.q)
    /\ op.name \in {"Or", "XOr"} => op.y.q # Q(0)
    /\ op.name = "And" => op.y.q \notin {Q(0), Q(-1)}

\* C30: x | c, x ^ c and x & c with such a constant return a Rollable other
\* than x itself; for a die x, every roll of x | c is the roll of x or-ed
\* with c.
C30_ConstantIsKept ==
    KeepsConstant =>
        /\ ret.r.err = ""
        /\ ret.r.isv
        /\ ret.r # op.x
        /\ op.name = "Or" /\ IsDieOperand(op.x) =>
               \A o \in RollsOfResult :
                   o.v = Ok(Q(BitOr(ValueIn(o.last, op.x).n, op.y.q.n)))

====
